---- MODULE Spec2Model ----
(***************************************************************************)
(* Workflow orchestrator: the execution engine (internal/engine), the     *)
(* persistence ports behind it (internal/repository) and the run endpoint *)
(* (cmd/api/handlers.go).                                                  *)
(*                                                                         *)
(* Two programs use the engine.  The API server (cmd/api/main.go) owns ONE *)
(* Engine and starts one background goroutine per accepted run request,   *)
(* each calling Engine.ExecuteWithLogging on that shared Engine.  The test *)
(* harnesses call Engine.Execute synchronously on an Engine of their own.  *)
(* `mode` says which of the two programs a behaviour is a run of.          *)
(*                                                                         *)
(* Time.  Every value of time.Now() read on behalf of one execution is     *)
(* numbered in read order (clk[e]); readings are strictly increasing       *)
(* because consecutive readings of one goroutine are separated by a store  *)
(* call.  Readings of different executions are never compared.            *)
(***************************************************************************)
EXTENDS Integers, Sequences, FiniteSets, TLC

\* ------------------------------------------------------------------ bounds
MaxExec == 2
MaxTasks == 2
NWriters == 2
MKeys == 2
KReaders == 1
MaxWf == 2

\* --------------------------------------------------------------- constants
NullTime == 0
NullJSON == <<"NULL">>
NoError == << >>
NoCtx == 0

ExecIds == 1..MaxExec
Terminal == {"completed", "failed"}

\* ---------------------------------------------------------- data and codecs
TaskId(i) == "t" \o ToString(i)

\* A task: its id and type; Name stands for its config (what tells two tasks
\* of one workflow apart when their ids collide).
Task(id, type, name) == [ID |-> id, Type |-> type, Name |-> name]

ResultKey(id) == id \o "_result"

\* The registry as main.go leaves it: registration happens before the router
\* starts and never afterwards.  "custom" is an executor of the embedding
\* program: any implementation of TaskExecutor can be registered.
RegisteredTypes == {"mock", "custom"}

RegistryGet(taskType) ==
    IF taskType \in RegisteredTypes
    THEN [found |-> TRUE, err |-> NoError]
    ELSE [found |-> FALSE,
          err |-> <<"no executor registered for task type: ", taskType>>]

\* A message that does not name the task type.
ExecutorNotFoundMsgNoType(taskType, err) == <<"task executor not found">>

\* fmt.Errorf / fmt.Sprintf: the message as the sequence of its fragments.
ExecutorNotFoundMsg(taskType, err) ==
    <<"task executor not found", " for type '", taskType, "': ">> \o err

TaskFailedMsg(id, msg) == <<"task ", id, " failed: ">> \o msg

Contains(msg, part) == \E i \in 1..Len(msg) : msg[i] = part

\* What an executor may return (TaskResult) for a task: success with the
\* output it computes for that task, or failure with its message.  Executors
\* of this repository only read the context.  A successful output may be
\* Go nil: a transform whose template renders the JSON literal null.
OutputOf(task) == IF task.Name = "null" THEN "nil" ELSE "out-" \o task.Name

\* The Status field is a string: an executor that is not one of this
\* repository's may return any text in it, with any output and error.
CustomStatuses == {"success", "failed", "", "skipped", "SUCCESS"}
CustomResults(task) ==
    {[Status |-> "success", Output |-> OutputOf(task), Error |-> << >>]}
        \cup {[Status |-> st, Output |-> OutputOf(task), Error |-> err] :
                  st \in CustomStatuses \ {"success"}, err \in {<<"odd">>, << >>}}

TaskResults(task) ==
    IF task.Type = "custom" THEN CustomResults(task)
    ELSE {[Status |-> "success", Output |-> OutputOf(task), Error |-> << >>],
          [Status |-> "failed", Output |-> "nil", Error |-> <<"boom">>]}

\* json.Marshal of one value: Go nil encodes as the JSON literal null, which
\* is a non-nil byte slice.
Marshal(v) == IF v = "nil" THEN <<"json", "null">> ELSE <<"json", "val", v>>

\* json.Marshal of the context map.
MarshalMap(m) == <<"object", [k \in DOMAIN m |-> Marshal(m[k])]>>

EmptyMap == [k \in {} |-> "nil"]

\* A Set that loses the keys written before it.
CtxSetAlone(m, key, value) == [k \in {key} |-> value]

\* ExecutionContext.Set
CtxSet(m, key, value) ==
    [k \in DOMAIN m \cup {key} |-> IF k = key THEN value ELSE m[k]]

\* ExecutionContext.GetAll
CtxGetAll(m) == [k \in DOMAIN m |-> m[k]]

\* ExecutionContext.Get
CtxGet(m, key) ==
    IF key \in DOMAIN m THEN [value |-> m[key], exists |-> TRUE]
    ELSE [value |-> "nil", exists |-> FALSE]

\* A Register that keeps the executor a type already has.
RegistryRegisterKeepFirst(m, taskType, executor) ==
    IF taskType \in DOMAIN m THEN m
    ELSE [t \in DOMAIN m \cup {taskType} |-> IF t = taskType THEN executor ELSE m[t]]

\* Registry.Register: r.executors[taskType] = executor
RegistryRegister(m, taskType, executor) ==
    [t \in DOMAIN m \cup {taskType} |-> IF t = taskType THEN executor ELSE m[t]]

\* Registry.Get on a registry holding m.
RegistryGetIn(m, taskType) ==
    IF taskType \in DOMAIN m
    THEN [executor |-> m[taskType], err |-> << >>]
    ELSE [executor |-> "nil",
          err |-> <<"no executor registered for task type: ", taskType>>]

\* Registry.List: the keys of r.executors, each once, in the order the map
\* iteration happens to yield them.
RegistryList(m) ==
    {l \in [1..Cardinality(DOMAIN m) -> DOMAIN m] :
        \A i, j \in DOMAIN l : i # j => l[i] # l[j]}

\* ------------------------------------------------------ workflow definitions
\* n tasks with distinct ids, all of a registered type.
WfOk(n) == [i \in 1..n |-> Task(TaskId(i), "mock", ToString(i))]

\* The same with task p of a type nothing is registered for (scenario S2).
WfMissing(n, p) ==
    [i \in 1..n |->
        Task(TaskId(i), IF i = p THEN "nonesuch" ELSE "mock", ToString(i))]

\* Two tasks with one id.
WfDup == <<Task(TaskId(1), "mock", "1"), Task(TaskId(1), "mock", "2")>>

\* json.Marshal of a definition whose `tasks` member is a list of tasks.
DefinitionJSON(tasks) == <<"object", "tasks", "list", tasks>>

\* A definition object whose `tasks` member is not a list: it can be stored
\* and cannot be decoded into a WorkflowDefinition.
UndecodableJSON == <<"object", "tasks", "string", "soon">>

\* A row of table workflows.
WorkflowRow(name, definition) == [name |-> name, definition |-> definition]

\* A decoder that takes whatever it cannot decode for an empty task list.
ToWorkflowDefinitionLenient(row) == [ok |-> TRUE, Name |-> row.name, Tasks |-> << >>]

\* Workflow.ToWorkflowDefinition: json.Unmarshal of the stored definition,
\* the name taken from the row.
ToWorkflowDefinition(row) ==
    IF row.definition[3] = "list"
    THEN [ok |-> TRUE, Name |-> row.name, Tasks |-> row.definition[4]]
    ELSE [ok |-> FALSE, Name |-> "", Tasks |-> << >>]

\* uuid.Parse of a path parameter: <<"uuid", n>> is the text of uuid n.
UuidParse(param) ==
    IF param[1] = "uuid" THEN [ok |-> TRUE, id |-> param[2]]
    ELSE [ok |-> FALSE, id |-> 0]

\* Workflows stored before any run request, by workflow id.
StoredWorkflows ==
    <<WorkflowRow("w0", DefinitionJSON(WfOk(0))),
      WorkflowRow("w1", DefinitionJSON(WfOk(MaxTasks))),
      WorkflowRow("w2", DefinitionJSON(WfMissing(MaxTasks + 1, 2))),
      WorkflowRow("w3", DefinitionJSON(WfDup))>>

\* --------------------------------------------------------------------- state
VARIABLES
    mode,            \* "api": cmd/api server; "harness": Engine.Execute caller
    env,             \* which persistence ports may fail in this behaviour
    workflows,       \* WorkflowStore: id -> definition
    executions,      \* ExecutionStore: id -> row of table executions
    taskLogs,        \* TaskLogStore: id -> row of table task_logs
    nextExec,        \* number of Execution ids minted so far
    engineCtx,       \* Engine.context of the shared Engine (a pointer)
    ctxs,            \* the ExecutionContext objects: pointer -> data map
    pc,              \* position of each background goroutine
    wf,              \* ExecuteWithLogging parameter workflow
    wfid,            \* ExecuteWithLogging parameter workflowID
    idx,             \* loop index i (1-based)
    execution,       \* local *ExecutionRecord
    taskLog,         \* local *TaskLogRecord
    result,          \* local TaskResult
    executionError,  \* local executionError
    clk,             \* time.Now() readings taken for each execution
    calls,           \* history: executor invocations of each execution
    sets,            \* history: Engine-issued context.Set calls
    logOps,          \* history: did a TaskLogStore call succeed, did one fail
    statusHist,      \* history: statuses persisted for each execution
    ret,             \* history: what ExecuteWithLogging returned
    orphans,         \* history: the executions non-terminal at a process exit
    prior,           \* history: the contexts Engine.context had pointed to
                     \* when ExecuteWithLogging was entered, by execution
    resp,            \* the last HTTP response written by a handler
    nextWf,          \* number of Workflow ids minted so far
    wpos,            \* context test: keys each writer has Set so far
    snap,            \* context test: what each reader's last GetAll returned
    got,             \* context test: what each reader's last Get returned
    executors,       \* Registry.executors: type -> executor
    regOut,          \* what the last Registry.Get or List call returned
    lastReg,         \* history: executor of the last completed Register, by type
    heap,            \* map test: the Go map objects, pointer -> contents
    dataPtr,         \* map test: ExecutionContext.data (a pointer to a map)
    mu,              \* map test: ExecutionContext.mu, the goroutines holding RLock
    rd,              \* map test: each reader's GetAll in progress and the map
                     \* it was last returned
    abs,             \* history: the keys set since the last Clear, with the
                     \* value last set for each
    put,             \* the PUT /workflows/{id} being served: the workflow its
                     \* handler loaded, with the fields of the request
    unit             \* executor test: the call of one TaskExecutor.Execute, its
                     \* configuration, locals and result, and the HTTP server

storeVars == <<workflows, executions, taskLogs, nextExec>>
engineVars == <<engineCtx, ctxs>>
localVars == <<pc, wf, wfid, idx, execution, taskLog, result, executionError, clk>>
histVars == <<calls, sets, logOps, statusHist, ret, prior, orphans>>
httpVars == <<resp, nextWf, put>>
mapVars == <<heap, dataPtr, mu, rd, abs>>
unitVars == <<wpos, snap, got, executors, regOut, lastReg, mapVars>>
execVars == <<unit>>
vars == <<mode, env, storeVars, engineVars, localVars, histVars, httpVars, unitVars, execVars>>

ZeroExecution ==
    [ID |-> 0, WorkflowID |-> 0, Status |-> "", ContextSnapshot |-> NullJSON,
     StartedAt |-> NullTime, CompletedAt |-> NullTime]

ZeroTaskLog ==
    [ID |-> <<0, 0>>, ExecutionID |-> 0, TaskID |-> "", TaskType |-> "",
     Status |-> "", Output |-> NullJSON, Error |-> NoError,
     StartedAt |-> NullTime, CompletedAt |-> NullTime]

ZeroResult == [Status |-> "", Output |-> "nil", Error |-> << >>]

NoReturn == [returned |-> FALSE, record |-> FALSE, err |-> NoError]

\* A store call fails only in behaviours whose environment lets it.
LogOutcomes == IF env.logFaults THEN {TRUE, FALSE} ELSE {TRUE}
ExecOutcomes == IF env.execFaults THEN {TRUE, FALSE} ELSE {TRUE}

\* ---------------------------------------------------------- persistence ports
\* gorm Save: UPDATE by primary key, INSERT when no row has that key.
Upsert(store, id, row) ==
    [k \in DOMAIN store \cup {id} |-> IF k = id THEN row ELSE store[k]]

\* A row that does not carry the workflow id.
ToExecutionRowNoWorkflow(rec) ==
    [workflow_id |-> 0, status |-> rec.Status,
     context_snapshot |-> rec.ContextSnapshot,
     started_at |-> rec.StartedAt, completed_at |-> rec.CompletedAt]

\* ExecutionLoggerAdapter: engine record -> row.
ToExecutionRow(rec) ==
    [workflow_id |-> rec.WorkflowID, status |-> rec.Status,
     context_snapshot |-> rec.ContextSnapshot,
     started_at |-> rec.StartedAt, completed_at |-> rec.CompletedAt]

\* A create that reports success and stores nothing.
ExecRepoCreateLost(store, id, row, now, ok) == [ok |-> ok, store |-> store]

\* GormExecutionRepository.Create: defaults, then INSERT (fails on an
\* existing primary key).
ExecRepoCreate(store, id, row, now, ok) ==
    LET r1 == IF row.status = "" THEN [row EXCEPT !.status = "pending"] ELSE row
        r2 == IF r1.started_at = NullTime THEN [r1 EXCEPT !.started_at = now] ELSE r1
    IN IF ok /\ id \notin DOMAIN store
       THEN [ok |-> TRUE, store |-> Upsert(store, id, r2)]
       ELSE [ok |-> FALSE, store |-> store]

\* GormExecutionRepository.Update
ExecRepoUpdate(store, id, row, ok) ==
    IF ok THEN [ok |-> TRUE, store |-> Upsert(store, id, row)]
    ELSE [ok |-> FALSE, store |-> store]

ToTaskLogRow(rec) ==
    [execution_id |-> rec.ExecutionID, task_id |-> rec.TaskID,
     task_type |-> rec.TaskType, status |-> rec.Status,
     output |-> rec.Output, error |-> rec.Error,
     started_at |-> rec.StartedAt, completed_at |-> rec.CompletedAt]

\* GormTaskLogRepository.Create: a zero CompletedAt is replaced by now.
TaskLogRepoCreate(store, id, row, now, ok) ==
    LET r1 == IF row.started_at = NullTime THEN [row EXCEPT !.started_at = now] ELSE row
        r2 == IF r1.completed_at = NullTime THEN [r1 EXCEPT !.completed_at = now] ELSE r1
    IN IF ok /\ id \notin DOMAIN store
       THEN [ok |-> TRUE, store |-> Upsert(store, id, r2)]
       ELSE [ok |-> FALSE, store |-> store]

\* GormTaskLogRepository.Update
TaskLogRepoUpdate(store, id, row, ok) ==
    IF ok THEN [ok |-> TRUE, store |-> Upsert(store, id, row)]
    ELSE [ok |-> FALSE, store |-> store]

EmptyStore == [k \in {} |-> 0]

\* The ids in S ordered by started_at ascending (ORDER BY started_at ASC).
RECURSIVE OrderByStartedAt(_, _)
OrderByStartedAt(store, S) ==
    IF S = {} THEN << >>
    ELSE LET first == CHOOSE a \in S :
                          \A b \in S : store[a].started_at <= store[b].started_at
         IN <<first>> \o OrderByStartedAt(store, S \ {first})

\* The rows of one execution, latest first.
GetByExecutionIDDesc(store, e) ==
    LET ids == OrderByStartedAt(store, {id \in DOMAIN store : store[id].execution_id = e})
    IN [k \in 1..Len(ids) |-> [id |-> ids[Len(ids) + 1 - k]] @@ store[ids[Len(ids) + 1 - k]]]

\* GormTaskLogRepository.GetByExecutionID: the rows of one execution with
\* their ids, ordered by started_at ascending.
GetByExecutionID(store, e) ==
    LET ids == OrderByStartedAt(store, {id \in DOMAIN store : store[id].execution_id = e})
    IN [k \in 1..Len(ids) |-> [id |-> ids[k]] @@ store[ids[k]]]

\* What a handler writes with c.JSON: the status code and, of the body, the
\* execution id and status it carries.
Response(handler, req, code, id, status) ==
    [handler |-> handler, req |-> req, code |-> code, id |-> id, status |-> status]

NoResponse == Response("", << >>, 0, 0, "")

\* No PUT is being served.
NoPut == [pending |-> FALSE]

\* ------------------------------------------------ context and registry tests
\* The goroutines of a concurrent test of ExecutionContext, and the types and
\* executors of a concurrent test of Registry.
Writers == 1..NWriters
Readers == 1..KReaders
RegTypes == {"ta", "tb", "tc"}
RegExecutors == {"x1", "x2"}
NoSnapshot == [taken |-> FALSE, data |-> EmptyMap]
NoGet == [key |-> "", value |-> "nil", exists |-> FALSE]
NoRegOut == [call |-> "", type |-> "", executor |-> "nil", err |-> NoError, list |-> << >>]

\* The context under test (ctx := NewExecutionContext()).
TestCtx == 1

\* The j-th key of writer w and the value written under it
\* (ctx.Set(fmt.Sprintf("key%d", id), id)).
KeyId(w, j) == (w - 1) * MKeys + j
KeyOf(id) == "key" \o ToString(id)
ValueOf(id) == "v" \o ToString(id)
TestKeys == {KeyOf(KeyId(w, j)) : w \in Writers, j \in 1..MKeys}

\* Map objects of the map test: a nil map pointer and the pointers make()
\* can return (the context's map, and for each reader the map it ranges
\* over, the one it fills and the one it was returned, and one to spare).
NilMap == 0
Ptrs == 1..(3 * KReaders + 2)
MapKeys == {KeyOf(j) : j \in 1..MKeys}
MapValues == {"v1", "v2"}

\* A reader outside GetAll holding the map its last GetAll returned.
IdleReader(m) ==
    [pc |-> "idle", src |-> NilMap, todo |-> {}, new |-> NilMap, ret |-> m]

\* ---------------------------------------------------------------------- Init
\* No executor is under test.
NoUnit == [pc |-> "off"]

InitCommon ==
    /\ unit = NoUnit
    /\ executions = EmptyStore
    /\ taskLogs = EmptyStore
    /\ nextExec = 0
    /\ engineCtx = NoCtx
    /\ ctxs = [c \in {NoCtx} \cup ExecIds |-> EmptyMap]
    /\ pc = [e \in ExecIds |-> "idle"]
    /\ wf = [e \in ExecIds |-> << >>]
    /\ wfid = [e \in ExecIds |-> 0]
    /\ idx = [e \in ExecIds |-> 0]
    /\ execution = [e \in ExecIds |-> ZeroExecution]
    /\ taskLog = [e \in ExecIds |-> ZeroTaskLog]
    /\ result = [e \in ExecIds |-> ZeroResult]
    /\ executionError = [e \in ExecIds |-> NoError]
    /\ clk = [e \in ExecIds |-> 0]
    /\ calls = [e \in ExecIds |-> << >>]
    /\ sets = [e \in ExecIds |-> << >>]
    /\ logOps = [e \in ExecIds |-> [ok |-> FALSE, fail |-> FALSE]]
    /\ statusHist = [e \in ExecIds |-> << >>]
    /\ ret = [e \in ExecIds |-> NoReturn]
    /\ prior = [e \in ExecIds |-> {}]
    /\ orphans = {}
    /\ resp = NoResponse
    /\ nextWf = 0
    /\ put = NoPut
    /\ wpos = [w \in Writers |-> 0]
    /\ snap = [r \in Readers |-> NoSnapshot]
    /\ got = [r \in Readers |-> NoGet]
    /\ executors = EmptyMap
    /\ regOut = NoRegOut
    /\ lastReg = [t \in RegTypes |-> "none"]
    /\ heap = [p \in Ptrs |-> EmptyMap]
    /\ dataPtr = 1
    /\ mu = {}
    /\ rd = [r \in Readers |-> IdleReader(NilMap)]
    /\ abs = EmptyMap

\* ------------------------------------------------------------ run endpoint
\* Path parameters of well-formed text naming stored workflows.
ValidRunRequests == {<<"uuid", w>> : w \in DOMAIN workflows}

\* handleRunWorkflow: load and decode the workflow, create the Execution in
\* `pending`, start the background goroutine, answer 202.
RunWorkflow(param) ==
    /\ mode = "api"
    /\ LET parsed == UuidParse(param)
           w == parsed.id
           found == parsed.ok /\ w \in DOMAIN workflows
           def == IF found THEN ToWorkflowDefinition(workflows[w])
                  ELSE [ok |-> FALSE, Name |-> "", Tasks |-> << >>]
       IN IF ~parsed.ok \/ ~found \/ ~def.ok
          THEN /\ resp' = Response("run", param,
                               IF ~parsed.ok THEN 400 ELSE IF ~found THEN 404 ELSE 400,
                               0, "")
               /\ UNCHANGED <<executions, nextExec, clk, pc, wf, wfid, statusHist>>
          ELSE /\ nextExec < MaxExec
               /\ LET e == nextExec + 1
                      row == [ToExecutionRow(ZeroExecution) EXCEPT
                                  !.workflow_id = w, !.status = "pending"]
                  IN \E ok \in ExecOutcomes :
                       LET c == ExecRepoCreate(executions, e, row, clk[e] + 1, ok)
                       IN /\ executions' = c.store
                          /\ nextExec' = e
                          /\ clk' = [clk EXCEPT ![e] = @ + 1]
                          /\ IF c.ok
                             THEN /\ pc' = [pc EXCEPT ![e] = "start"]
                                  /\ wf' = [wf EXCEPT ![e] = def.Tasks]
                                  /\ wfid' = [wfid EXCEPT ![e] = w]
                                  /\ statusHist' = [statusHist EXCEPT ![e] = <<"pending">>]
                                  /\ resp' = Response("run", param, 202, e, "pending")
                             ELSE /\ pc' = [pc EXCEPT ![e] = "rejected"]
                                  /\ resp' = Response("run", param, 500, 0, "")
                                  /\ UNCHANGED <<wf, wfid, statusHist>>
    /\ UNCHANGED <<mode, unit, env, workflows, taskLogs, engineVars, idx, execution,
                   taskLog, result, executionError, calls, sets, logOps, ret,
                   prior, orphans, nextWf, unitVars, put>>

\* ------------------------------------------------------- workflow endpoints
\* gorm.Config of InitDB sets no TranslateError: a driver error reaches the
\* repository untranslated and is never gorm.ErrDuplicatedKey.
TranslateError == FALSE

\* The driver's message for a violated unique index, as the fragments the
\* handlers look for.
UniqueViolation ==
    <<"ERROR: ", "duplicate", " key value violates ", "unique",
      " constraint \"idx_workflows_name\" (SQLSTATE 23505)">>

\* The driver's message for a violated foreign key.
ForeignKeyViolation ==
    <<"ERROR: update or delete on table \"workflows\" violates foreign key constraint (SQLSTATE 23503)">>

\* Whether a row other than id carries the name (uniqueIndex on name).
NameTaken(store, id, name) ==
    \E o \in DOMAIN store : o # id /\ store[o].name = name

\* What the repository returns for a failed db.Create / db.Save.
DuplicateErr(prefix, name) ==
    IF TranslateError
    THEN <<"workflow with name '", name, "' ", "already exists">>
    ELSE <<prefix>> \o UniqueViolation

\* GormWorkflowRepository.Create
WorkflowRepoCreate(store, id, row) ==
    IF NameTaken(store, id, row.name)
    THEN [ok |-> FALSE, store |-> store,
          err |-> DuplicateErr("failed to create workflow: ", row.name)]
    ELSE [ok |-> TRUE, store |-> Upsert(store, id, row), err |-> NoError]

\* GormWorkflowRepository.GetByID
WorkflowRepoGetByID(store, id) ==
    IF id \in DOMAIN store
    THEN [ok |-> TRUE, err |-> NoError]
    ELSE [ok |-> FALSE, err |-> <<"workflow ", "not found", ": ", id>>]

\* GormWorkflowRepository.Update (db.Save)
WorkflowRepoUpdate(store, id, row) ==
    IF NameTaken(store, id, row.name)
    THEN [ok |-> FALSE, store |-> store,
          err |-> DuplicateErr("failed to update workflow: ", row.name)]
    ELSE [ok |-> TRUE, store |-> Upsert(store, id, row), err |-> NoError]

\* GormWorkflowRepository.Delete: the executions of a workflow reference it
\* (foreignKey:WorkflowID), the delete of a referenced row fails.
WorkflowRepoDelete(store, execs, id) ==
    IF \E e \in DOMAIN execs : execs[e].workflow_id = id
    THEN [ok |-> FALSE, store |-> store,
          err |-> <<"failed to delete workflow: ">> \o ForeignKeyViolation]
    ELSE IF id \notin DOMAIN store
    THEN [ok |-> FALSE, store |-> store, err |-> <<"workflow ", "not found", ": ", id>>]
    ELSE [ok |-> TRUE, store |-> [o \in DOMAIN store \ {id} |-> store[o]],
          err |-> NoError]

\* The status handleCreateWorkflow answers a failed repo.Create with.
CreateErrorCode(err) ==
    IF Contains(err, "already exists") \/ Contains(err, "duplicate")
           \/ Contains(err, "unique")
    THEN 409 ELSE 500

\* The status handleUpdateWorkflow answers a failed repo.Update with.
UpdateErrorCode(err) == IF Contains(err, "already exists") THEN 409 ELSE 500

\* The status a handler answers a failed GetByID / Delete with.
LookupErrorCode(err) == IF Contains(err, "not found") THEN 404 ELSE 500

\* What clients send: names (the empty one fails binding:"required"),
\* definitions, path parameters.
ClientNames == {"", "a", "b"}
ClientDefinitions == {DefinitionJSON(WfOk(1)), UndecodableJSON}
WorkflowParams == {<<"text", "not-a-uuid">>} \cup {<<"uuid", w>> : w \in 1..(MaxWf + 1)}
ExecutionParams == {<<"text", "not-a-uuid">>} \cup {<<"uuid", e>> : e \in ExecIds}

\* handleCreateWorkflow: POST /workflows
CreateWorkflow(name, definition) ==
    /\ mode = "api"
    /\ IF name = ""
       THEN /\ resp' = Response("create", <<name>>, 400, 0, "")
            /\ UNCHANGED <<workflows, nextWf>>
       ELSE /\ nextWf < MaxWf
            /\ LET c == WorkflowRepoCreate(workflows, nextWf + 1,
                                           WorkflowRow(name, definition))
               IN /\ workflows' = c.store
                  /\ nextWf' = IF c.ok THEN nextWf + 1 ELSE nextWf
                  /\ resp' = IF c.ok THEN Response("create", <<name>>, 201, nextWf + 1, "")
                             ELSE Response("create", <<name>>, CreateErrorCode(c.err), 0, "")
    /\ UNCHANGED <<mode, unit, env, executions, taskLogs, nextExec, engineVars, localVars,
                   histVars, unitVars, put>>

\* handleUpdateWorkflow: PUT /workflows/{id}
UpdateWorkflow(param, name, definition) ==
    /\ mode = "api"
    /\ LET parsed == UuidParse(param)
           g == WorkflowRepoGetByID(workflows, parsed.id)
           u == WorkflowRepoUpdate(workflows, parsed.id, WorkflowRow(name, definition))
       IN IF ~parsed.ok \/ name = ""
          THEN /\ resp' = Response("update", <<param, name>>, 400, 0, "")
               /\ UNCHANGED workflows
          ELSE IF ~g.ok
          THEN /\ resp' = Response("update", <<param, name>>, LookupErrorCode(g.err), 0, "")
               /\ UNCHANGED workflows
          ELSE /\ workflows' = u.store
               /\ resp' = IF u.ok THEN Response("update", <<param, name>>, 200, parsed.id, "")
                          ELSE Response("update", <<param, name>>, UpdateErrorCode(u.err), 0, "")
    /\ UNCHANGED <<mode, unit, env, executions, taskLogs, nextExec, engineVars, localVars,
                   histVars, nextWf, unitVars, put>>

\* handleDeleteWorkflow: DELETE /workflows/{id}
DeleteWorkflow(param) ==
    /\ mode = "api"
    /\ LET parsed == UuidParse(param)
           d == WorkflowRepoDelete(workflows, executions, parsed.id)
       IN IF ~parsed.ok
          THEN /\ resp' = Response("delete", param, 400, 0, "")
               /\ UNCHANGED workflows
          ELSE /\ workflows' = d.store
               /\ resp' = IF d.ok THEN Response("delete", param, 204, 0, "")
                          ELSE Response("delete", param, LookupErrorCode(d.err), 0, "")
    /\ UNCHANGED <<mode, unit, env, executions, taskLogs, nextExec, engineVars, localVars,
                   histVars, nextWf, unitVars, put>>

\* GormExecutionRepository.GetByID
ExecRepoGetByID(store, id) ==
    IF id \in DOMAIN store
    THEN [ok |-> TRUE, row |-> store[id], err |-> NoError]
    ELSE [ok |-> FALSE, row |-> ToExecutionRow(ZeroExecution),
          err |-> <<"execution ", "not found", ": ", id>>]

\* handleGetExecution: GET /executions/{id}
GetExecution(param) ==
    /\ mode = "api"
    /\ LET parsed == UuidParse(param)
           g == ExecRepoGetByID(executions, parsed.id)
       IN resp' = IF ~parsed.ok THEN Response("get", param, 400, 0, "")
                  ELSE IF ~g.ok THEN Response("get", param, LookupErrorCode(g.err), 0, "")
                  ELSE Response("get", param, 200, parsed.id, g.row.status)
    /\ UNCHANGED <<mode, unit, env, storeVars, engineVars, localVars, histVars, nextWf,
                   unitVars, put>>

\* --------------------------------------------------- Engine.ExecuteWithLogging
\* The goroutine is cut where it touches the state the goroutines share, the
\* Engine.context pointer and the contexts behind it; the store rows an
\* execution writes are its own.

\* The first pc of the task loop, or of what follows it.
LoopPc(tasks, i) == IF i <= Len(tasks) THEN "task" ELSE "finish"

\* A record that keeps the status the run endpoint stored.
RunningRecordPending(e, now) ==
    [ZeroExecution EXCEPT !.ID = e, !.WorkflowID = wfid[e],
                          !.Status = "pending", !.StartedAt = now]

\* The record ExecuteWithLogging materializes for a supplied execution id.
RunningRecord(e, now) ==
    [ZeroExecution EXCEPT !.ID = e, !.WorkflowID = wfid[e],
                          !.Status = "running", !.StartedAt = now]

\* Whether the caller supplied an execution id: the run endpoint does (the
\* id of the record it created), a direct caller passes the id of a record
\* not stored yet ("directid") or nil, and then the runner mints the id.
IdSupplied == mode \in {"api", "directid"}

\* A runner that goes on without a stored record.
RecordStoredAlways(done) == TRUE

\* Whether the Execution record was materialized (err == nil).
RecordStored(done) == done.ok

\* A runner that wipes the workflows table.
EngineWorkflowsDropped(store) == [k \in {} |-> 0]

\* The workflows table after a step of the engine: ExecutionLogger, its
\* only port to the stores, has no workflow operation, and the adapter
\* hands GORM rows whose Workflow association is the zero value.
EngineWorkflows(store) == store

\* NewExecutionContext(): an initialized, empty data map.
NewExecutionContext == EmptyMap

\* A runner that goes on with the context the engine had.
ContextKept(e) == engineCtx

\* The pointer e.context is given on entry: the context made for this run.
ContextOf(e) == e

\* The contexts Engine.context has pointed to so far: NewEngine's and the
\* one of every logged run entered.
EverEngineContext == {NoCtx} \cup {c \in ExecIds : prior[c] # {}}

\* e.context = NewExecutionContext(); then create or update the Execution
\* record (executionID != nil: update with status running, create when the
\* update fails; executionID == nil: create); when that fails the run is
\* aborted.
StartExecution(e) ==
    /\ pc[e] = "start"
    /\ engineCtx' = ContextOf(e)
    /\ ctxs' = [ctxs EXCEPT ![e] = NewExecutionContext]
    /\ LET rec == RunningRecord(e, clk[e] + 1)
       IN \E okU \in ExecOutcomes, okC \in ExecOutcomes :
            LET u == IF IdSupplied
                     THEN ExecRepoUpdate(executions, e, ToExecutionRow(rec), okU)
                     ELSE [ok |-> FALSE, store |-> executions]
                c == ExecRepoCreate(executions, e, ToExecutionRow(rec), clk[e] + 1, okC)
                done == IF u.ok THEN u ELSE c
            IN /\ (u.ok => okC)
               /\ (~IdSupplied => okU)
               /\ executions' = done.store
               /\ IF RecordStored(done)
                  THEN /\ pc' = [pc EXCEPT ![e] = LoopPc(wf[e], 1)]
                       /\ idx' = [idx EXCEPT ![e] = 1]
                       /\ execution' = [execution EXCEPT ![e] = rec]
                       /\ statusHist' = [statusHist EXCEPT ![e] =
                              IF done.ok THEN Append(@, rec.Status) ELSE @]
                       /\ ret' = ret
                  ELSE /\ pc' = [pc EXCEPT ![e] = "done"]
                       /\ execution' = [execution EXCEPT ![e] = rec]
                       /\ ret' = [ret EXCEPT ![e] =
                              [returned |-> TRUE, record |-> FALSE,
                               err |-> IF IdSupplied
                                       THEN <<"failed to create/update execution record: ">>
                                       ELSE <<"failed to create execution record: ">>]]
                       /\ UNCHANGED <<idx, statusHist>>
    /\ clk' = [clk EXCEPT ![e] = @ + 1]
    /\ workflows' = EngineWorkflows(workflows)
    /\ UNCHANGED <<mode, unit, env, taskLogs, nextExec, wf, wfid,
                   taskLog, result, executionError, calls, sets, logOps>>
    /\ prior' = [prior EXCEPT ![e] = EverEngineContext]
    /\ UNCHANGED <<httpVars, unitVars, orphans>>

\* Loop head: the TaskLog minted for task i of execution e.
NewTaskLog(e, i, now) ==
    [ZeroTaskLog EXCEPT !.ID = <<e, i>>, !.ExecutionID = execution[e].ID,
                        !.TaskID = wf[e][i].ID, !.TaskType = wf[e][i].Type,
                        !.Status = "running", !.StartedAt = now]

\* The history of TaskLogStore outcomes after one more call.
LogOp(h, ok) == [ok |-> h.ok \/ ok, fail |-> h.fail \/ ~ok]

\* Loop head with registry.Get failing: CreateTaskLog (a failure is logged
\* and ignored), then the task log is closed as failed and the loop breaks.
LookupMiss(e) ==
    /\ pc[e] = "task"
    /\ LET i == idx[e]
           g == RegistryGet(wf[e][i].Type)
           rec0 == NewTaskLog(e, i, clk[e] + 1)
           rec == [rec0 EXCEPT !.Status = "failed",
                       !.Error = ExecutorNotFoundMsg(wf[e][i].Type, g.err),
                       !.CompletedAt = clk[e] + 3]
       IN /\ ~g.found
          /\ \E okC \in LogOutcomes, okU \in LogOutcomes :
               LET c == TaskLogRepoCreate(taskLogs, rec0.ID, ToTaskLogRow(rec0),
                                          clk[e] + 2, okC)
                   u == TaskLogRepoUpdate(c.store, rec.ID, ToTaskLogRow(rec), okU)
               IN /\ taskLogs' = u.store
                  /\ logOps' = [logOps EXCEPT ![e] =
                         LogOp(LogOp(@, c.ok), u.ok)]
          /\ taskLog' = [taskLog EXCEPT ![e] = rec]
          /\ executionError' = [executionError EXCEPT ![e] =
                 ExecutorNotFoundMsg(wf[e][i].Type, g.err)]
    /\ clk' = [clk EXCEPT ![e] = @ + 3]
    /\ pc' = [pc EXCEPT ![e] = "finish"]
    /\ workflows' = EngineWorkflows(workflows)
    /\ UNCHANGED <<mode, unit, env, executions, nextExec, engineVars, wf, wfid,
                   idx, execution, result, calls, sets, statusHist, ret>>
    /\ UNCHANGED <<httpVars, unitVars, prior, orphans>>

\* The context handed to the executor: whatever Engine.context points to
\* when the runner dereferences it.
ExecuteTarget(e) == engineCtx

\* Loop head with registry.Get succeeding: CreateTaskLog, then
\* executor.Execute(e.context, task.Config) runs and returns; which result
\* it returns is up to the executor.
ExecuteTask(e) ==
    /\ pc[e] = "task"
    /\ LET i == idx[e]
           rec0 == NewTaskLog(e, i, clk[e] + 1)
       IN /\ RegistryGet(wf[e][i].Type).found
          /\ \E okC \in LogOutcomes :
               LET c == TaskLogRepoCreate(taskLogs, rec0.ID, ToTaskLogRow(rec0),
                                          clk[e] + 2, okC)
               IN /\ taskLogs' = c.store
                  /\ logOps' = [logOps EXCEPT ![e] =
                         LogOp(@, c.ok)]
          /\ taskLog' = [taskLog EXCEPT ![e] = rec0]
          /\ \E r \in TaskResults(wf[e][i]) :
               /\ result' = [result EXCEPT ![e] = r]
               /\ calls' = [calls EXCEPT ![e] =
                      Append(@, [task |-> i, ctx |-> ExecuteTarget(e), result |-> r])]
    /\ clk' = [clk EXCEPT ![e] = @ + 2]
    /\ pc' = [pc EXCEPT ![e] = "publish"]
    /\ workflows' = EngineWorkflows(workflows)
    /\ UNCHANGED <<mode, unit, env, executions, nextExec, engineVars, wf, wfid,
                   idx, execution, executionError, sets, statusHist, ret>>
    /\ UNCHANGED <<httpVars, unitVars, prior, orphans>>

\* A runner for which only the status failed is a failure.
IsSuccessUnlessFailed(r) == r.Status # "failed"

\* Whether the runner takes a result for a success (result.Status == "success").
IsSuccess(r) == r.Status = "success"

\* A loop that goes on after a failed result.
ShouldBreakNever(r) == FALSE

\* Whether the loop breaks after a result (result.Status != "success").
ShouldBreak(r) == r.Status # "success"

\* A loop that also stops when the task log could not be updated.
BreakAfterUpdateOnLogError(r, logOk) == ShouldBreak(r) \/ ~logOk

\* The break test after UpdateTaskLog: an error of the update is logged and
\* plays no part in it.
BreakAfterUpdate(r, logOk) == ShouldBreak(r)

\* The context the runner publishes into: again whatever Engine.context
\* points to at that moment.
PublishTarget(e) == engineCtx

\* The value published under the result key.
PublishedValue(r) == r.Output

\* A task log closed without the serialized output.
ClosedTaskLogNoOutput(rec, r, now) ==
    IF IsSuccess(r)
    THEN [rec EXCEPT !.CompletedAt = now, !.Status = "success"]
    ELSE [rec EXCEPT !.CompletedAt = now, !.Status = "failed", !.Error = r.Error]

\* A runner that closes the task log of a successful task only.
ClosedTaskLogOnSuccess(rec, r, now) ==
    IF IsSuccess(r)
    THEN [rec EXCEPT !.CompletedAt = now, !.Status = "success",
                     !.Output = Marshal(r.Output)]
    ELSE rec

\* The task log after the executor returned r.
ClosedTaskLog(rec, r, now) ==
    IF IsSuccess(r)
    THEN [rec EXCEPT !.CompletedAt = now, !.Status = "success",
                     !.Output = Marshal(r.Output)]
    ELSE [rec EXCEPT !.CompletedAt = now, !.Status = "failed", !.Error = r.Error]

\* Result handling: on success publish `<id>_result`; on failure set
\* executionError; UpdateTaskLog either way (a failure is logged and
\* ignored); break on failure, else go on with the next task.
PublishResult(e) ==
    /\ pc[e] = "publish"
    /\ LET i == idx[e]
           task == wf[e][i]
           r == result[e]
           c == PublishTarget(e)
           rec == ClosedTaskLog(taskLog[e], r, clk[e] + 1)
       IN /\ IF IsSuccess(r)
             THEN /\ ctxs' = [ctxs EXCEPT ![c] =
                         CtxSet(@, ResultKey(task.ID), PublishedValue(r))]
                  /\ sets' = [sets EXCEPT ![e] =
                         Append(@, [task |-> i, key |-> ResultKey(task.ID),
                                    value |-> PublishedValue(r), ctx |-> c])]
                  /\ UNCHANGED executionError
             ELSE /\ executionError' = [executionError EXCEPT ![e] =
                         TaskFailedMsg(task.ID, r.Error)]
                  /\ UNCHANGED <<ctxs, sets>>
          /\ taskLog' = [taskLog EXCEPT ![e] = rec]
          /\ \E ok \in LogOutcomes :
               LET u == TaskLogRepoUpdate(taskLogs, rec.ID, ToTaskLogRow(rec), ok)
               IN /\ taskLogs' = u.store
                  /\ logOps' = [logOps EXCEPT ![e] = LogOp(@, u.ok)]
                  /\ IF BreakAfterUpdate(r, u.ok)
                     THEN /\ pc' = [pc EXCEPT ![e] = "finish"]
                          /\ idx' = idx
                     ELSE /\ pc' = [pc EXCEPT ![e] = LoopPc(wf[e], i + 1)]
                          /\ idx' = [idx EXCEPT ![e] = i + 1]
    /\ clk' = [clk EXCEPT ![e] = @ + 1]
    /\ workflows' = EngineWorkflows(workflows)
    /\ UNCHANGED <<mode, unit, env, executions, nextExec, engineCtx, wf, wfid,
                   execution, result, calls, statusHist, ret>>
    /\ UNCHANGED <<httpVars, unitVars, prior, orphans>>

\* The context the runner snapshots: again whatever Engine.context points to.
SnapshotSource(e) == engineCtx

\* A final status that is not terminal.
TerminalStatusRunning(err) == "running"

\* The terminal status the runner derives from executionError.
TerminalStatus(err) == IF err # NoError THEN "failed" ELSE "completed"

\* A final record without completed_at.
FinalRecordNoCompletedAt(e, now) ==
    [execution[e] EXCEPT
        !.ContextSnapshot = MarshalMap(CtxGetAll(ctxs[SnapshotSource(e)])),
        !.Status = TerminalStatus(executionError[e])]

\* The record as ExecuteWithLogging leaves it: context snapshot,
\* completed_at and terminal status.
FinalRecord(e, now) ==
    [execution[e] EXCEPT
        !.ContextSnapshot = MarshalMap(CtxGetAll(ctxs[SnapshotSource(e)])),
        !.CompletedAt = now,
        !.Status = TerminalStatus(executionError[e])]

\* After the loop: snapshot the context, set completed_at and the terminal
\* status, UpdateExecution, return.
FinishExecution(e) ==
    /\ pc[e] = "finish"
    /\ LET rec == FinalRecord(e, clk[e] + 1)
       IN \E ok \in ExecOutcomes :
            LET u == ExecRepoUpdate(executions, rec.ID, ToExecutionRow(rec), ok)
            IN /\ executions' = u.store
               /\ execution' = [execution EXCEPT ![e] = rec]
               /\ IF u.ok
                  THEN /\ statusHist' = [statusHist EXCEPT ![e] = Append(@, rec.Status)]
                       /\ ret' = [ret EXCEPT ![e] =
                              [returned |-> TRUE, record |-> TRUE,
                               err |-> executionError[e]]]
                  ELSE /\ statusHist' = statusHist
                       /\ ret' = [ret EXCEPT ![e] =
                              [returned |-> TRUE, record |-> TRUE,
                               err |-> <<"failed to update execution: ">>]]
    /\ clk' = [clk EXCEPT ![e] = @ + 1]
    /\ pc' = [pc EXCEPT ![e] = "done"]
    /\ workflows' = EngineWorkflows(workflows)
    /\ UNCHANGED <<mode, unit, env, taskLogs, nextExec, engineVars, wf, wfid,
                   idx, taskLog, result, executionError, calls, sets, logOps>>
    /\ UNCHANGED <<httpVars, unitVars, prior, orphans>>

\* A direct caller (a test, a command line tool) calls
\* ExecuteWithLogging(workflow, workflowID, logger, id or nil) and waits
\* for it.
CallExecuteWithLogging(w) ==
    /\ mode \in {"direct", "directid"}
    /\ nextExec < MaxExec
    /\ nextExec > 0 => pc[nextExec] = "done"
    /\ w \in DOMAIN workflows
    /\ LET e == nextExec + 1
       IN /\ nextExec' = e
          /\ wf' = [wf EXCEPT ![e] = ToWorkflowDefinition(workflows[w]).Tasks]
          /\ wfid' = [wfid EXCEPT ![e] = w]
          /\ pc' = [pc EXCEPT ![e] = "start"]
    /\ UNCHANGED <<mode, unit, env, workflows, executions, taskLogs, engineVars, idx,
                   execution, taskLog, result, executionError, clk, histVars,
                   httpVars, unitVars>>

\* ------------------------------------------------------------ Engine.Execute
\* The un-logged runner, called synchronously by a harness on an Engine of
\* its own whose context (NewEngine's) is never replaced.  Call number e
\* uses the per-execution variables of index e.

\* The harness calls Execute(workflow) once the previous call has returned.
CallExecute(w) ==
    /\ mode = "harness"
    /\ nextExec < MaxExec
    /\ nextExec > 0 => pc[nextExec] = "done"
    /\ w \in DOMAIN workflows
    /\ LET e == nextExec + 1
       IN /\ nextExec' = e
          /\ wf' = [wf EXCEPT ![e] = ToWorkflowDefinition(workflows[w]).Tasks]
          /\ idx' = [idx EXCEPT ![e] = 1]
          /\ pc' = [pc EXCEPT ![e] = "uloop"]
    /\ UNCHANGED <<mode, unit, env, workflows, executions, taskLogs, engineVars, wfid,
                   execution, taskLog, result, executionError, clk, histVars>>
    /\ UNCHANGED <<httpVars, unitVars, prior, orphans>>

\* One iteration of Execute's loop: lookup, executor call, then publish and
\* continue, or return the error.
ExecuteIteration(e) ==
    /\ pc[e] = "uloop"
    /\ idx[e] <= Len(wf[e])
    /\ LET i == idx[e]
           task == wf[e][i]
           g == RegistryGet(task.Type)
       IN IF ~g.found
          THEN /\ ret' = [ret EXCEPT ![e] =
                      [returned |-> TRUE, record |-> FALSE,
                       err |-> ExecutorNotFoundMsg(task.Type, g.err)]]
               /\ pc' = [pc EXCEPT ![e] = "done"]
               /\ UNCHANGED <<ctxs, idx, result, calls, sets>>
          ELSE \E r \in TaskResults(task) :
                 /\ result' = [result EXCEPT ![e] = r]
                 /\ calls' = [calls EXCEPT ![e] =
                        Append(@, [task |-> i, ctx |-> engineCtx, result |-> r,
                                   seen |-> CtxGetAll(ctxs[engineCtx])])]
                 /\ IF IsSuccess(r)
                    THEN /\ ctxs' = [ctxs EXCEPT ![engineCtx] =
                                CtxSet(@, ResultKey(task.ID), r.Output)]
                         /\ sets' = [sets EXCEPT ![e] =
                                Append(@, [task |-> i, key |-> ResultKey(task.ID),
                                           value |-> r.Output, ctx |-> engineCtx])]
                         /\ idx' = [idx EXCEPT ![e] = i + 1]
                         /\ UNCHANGED <<pc, ret>>
                    ELSE /\ ret' = [ret EXCEPT ![e] =
                                [returned |-> TRUE, record |-> FALSE,
                                 err |-> TaskFailedMsg(task.ID, r.Error)]]
                         /\ pc' = [pc EXCEPT ![e] = "done"]
                         /\ UNCHANGED <<ctxs, sets, idx>>
    /\ workflows' = EngineWorkflows(workflows)
    /\ UNCHANGED <<mode, unit, env, executions, taskLogs, nextExec, engineCtx, wf, wfid, execution, taskLog,
                   executionError, clk, logOps, statusHist>>
    /\ UNCHANGED <<httpVars, unitVars, prior, orphans>>

\* The loop is over: return nil.
ExecuteReturn(e) ==
    /\ pc[e] = "uloop"
    /\ idx[e] > Len(wf[e])
    /\ ret' = [ret EXCEPT ![e] = [returned |-> TRUE, record |-> FALSE, err |-> NoError]]
    /\ pc' = [pc EXCEPT ![e] = "done"]
    /\ workflows' = EngineWorkflows(workflows)
    /\ UNCHANGED <<mode, unit, env, executions, taskLogs, nextExec, engineVars, wf, wfid, idx, execution,
                   taskLog, result, executionError, clk, calls, sets, logOps,
                   statusHist>>
    /\ UNCHANGED <<httpVars, unitVars, prior, orphans>>

\* ---------------------------------------------------------------- behaviours
\* The TaskLogStore may fail any call; the ExecutionStore works.
Init ==
    /\ InitCommon
    /\ workflows = StoredWorkflows
    /\ mode \in {"api", "harness"}
    /\ env = [logFaults |-> TRUE, execFaults |-> FALSE]

Next ==
    \/ \E param \in ValidRunRequests : RunWorkflow(param)
    \/ \E e \in ExecIds : StartExecution(e)
    \/ \E e \in ExecIds : LookupMiss(e)
    \/ \E e \in ExecIds : ExecuteTask(e)
    \/ \E e \in ExecIds : PublishResult(e)
    \/ \E e \in ExecIds : FinishExecution(e)
    \/ \E w \in DOMAIN workflows : CallExecute(w)
    \/ \E e \in ExecIds : ExecuteIteration(e)
    \/ \E e \in ExecIds : ExecuteReturn(e)

Spec == Init /\ [][Next]_vars

\* Both persistence ports may fail any call; the logging runner is started by
\* the run endpoint or by a direct caller.
InitFaults ==
    /\ InitCommon
    /\ workflows = StoredWorkflows
    /\ mode \in {"api", "direct"}
    /\ env = [logFaults |-> TRUE, execFaults |-> TRUE]

NextFaults ==
    \/ \E param \in ValidRunRequests : RunWorkflow(param)
    \/ \E w \in DOMAIN workflows : CallExecuteWithLogging(w)
    \/ \E e \in ExecIds : StartExecution(e)
    \/ \E e \in ExecIds : LookupMiss(e)
    \/ \E e \in ExecIds : ExecuteTask(e)
    \/ \E e \in ExecIds : PublishResult(e)
    \/ \E e \in ExecIds : FinishExecution(e)

SpecFaults == InitFaults /\ [][NextFaults]_vars

\* The API server and the clients of its run and execution endpoints: one
\* stored workflow whose second task has no executor, one whose definition
\* cannot be decoded; the stores work.
ApiWorkflows ==
    <<WorkflowRow("a", DefinitionJSON(WfMissing(2, 2))),
      WorkflowRow("b", UndecodableJSON)>>

InitApi ==
    /\ InitCommon
    /\ workflows = ApiWorkflows
    /\ mode = "api"
    /\ env = [logFaults |-> FALSE, execFaults |-> FALSE]

NextApi ==
    \/ \E param \in WorkflowParams : DeleteWorkflow(param)
    \/ \E param \in WorkflowParams : RunWorkflow(param)
    \/ \E param \in ExecutionParams : GetExecution(param)
    \/ \E e \in ExecIds : StartExecution(e)
    \/ \E e \in ExecIds : LookupMiss(e)
    \/ \E e \in ExecIds : ExecuteTask(e)
    \/ \E e \in ExecIds : PublishResult(e)
    \/ \E e \in ExecIds : FinishExecution(e)

SpecApi == InitApi /\ [][NextApi]_vars

\* The API server and the clients of its workflow endpoints, starting from
\* an empty workflows table.
InitCrud ==
    /\ InitCommon
    /\ workflows = EmptyStore
    /\ mode = "api"
    /\ env = [logFaults |-> FALSE, execFaults |-> FALSE]

NextCrud ==
    \/ \E name \in ClientNames, d \in ClientDefinitions : CreateWorkflow(name, d)
    \/ \E param \in WorkflowParams, name \in ClientNames, d \in ClientDefinitions :
           UpdateWorkflow(param, name, d)
    \/ \E param \in WorkflowParams : DeleteWorkflow(param)

SpecCrud == InitCrud /\ [][NextCrud]_vars

\* The API server running one stored workflow: a task whose successful
\* output is nil, an ordinary task, a task without executor.  The
\* TaskLogStore may fail any call.
LogWorkflows ==
    <<WorkflowRow("n", DefinitionJSON(<<Task(TaskId(1), "mock", "null"),
                                         Task(TaskId(2), "mock", "2"),
                                         Task(TaskId(3), "nonesuch", "3")>>))>>

InitLogs ==
    /\ InitCommon
    /\ workflows = LogWorkflows
    /\ mode = "api"
    /\ env = [logFaults |-> TRUE, execFaults |-> FALSE]

NextLogs ==
    \/ \E param \in ValidRunRequests : RunWorkflow(param)
    \/ \E e \in ExecIds : StartExecution(e)
    \/ \E e \in ExecIds : LookupMiss(e)
    \/ \E e \in ExecIds : ExecuteTask(e)
    \/ \E e \in ExecIds : PublishResult(e)
    \/ \E e \in ExecIds : FinishExecution(e)

SpecLogs == InitLogs /\ [][NextLogs]_vars

\* One step of the background goroutine of execution e.
Runner(e) ==
    \/ StartExecution(e)
    \/ LookupMiss(e)
    \/ ExecuteTask(e)
    \/ PublishResult(e)
    \/ FinishExecution(e)

\* The same server with every background goroutine scheduled fairly: the
\* executor calls return, the ExecutionStore works, the process goes on.
ProgressWorkflows ==
    <<WorkflowRow("p", DefinitionJSON(WfOk(1))),
      WorkflowRow("q", DefinitionJSON(WfMissing(2, 2)))>>

InitProgress ==
    /\ InitCommon
    /\ workflows = ProgressWorkflows
    /\ mode = "api"
    /\ env = [logFaults |-> TRUE, execFaults |-> FALSE]

SpecProgress ==
    InitProgress /\ [][NextLogs]_vars /\ \A e \in ExecIds : WF_vars(Runner(e))

\* -------------------------------------------------------- the context test
\* A writer goroutine: ctx.Set of its next key.  Set, Get and GetAll run
\* under the context's RWMutex, each is one step.
WriterSet(w) ==
    /\ mode = "ctxtest"
    /\ wpos[w] < MKeys
    /\ LET id == KeyId(w, wpos[w] + 1)
       IN ctxs' = [ctxs EXCEPT ![TestCtx] = CtxSet(@, KeyOf(id), ValueOf(id))]
    /\ wpos' = [wpos EXCEPT ![w] = @ + 1]
    /\ UNCHANGED <<mode, unit, env, storeVars, engineCtx, localVars, histVars, httpVars,
                   snap, got, executors, regOut, lastReg, mapVars>>

\* A reader goroutine: ctx.GetAll()
ReaderGetAll(r) ==
    /\ mode = "ctxtest"
    /\ snap' = [snap EXCEPT ![r] = [taken |-> TRUE, data |-> CtxGetAll(ctxs[TestCtx])]]
    /\ UNCHANGED <<mode, unit, env, storeVars, engineVars, localVars, histVars, httpVars,
                   wpos, got, executors, regOut, lastReg, mapVars>>

\* A reader goroutine: ctx.Get(key)
ReaderGet(r, key) ==
    /\ mode = "ctxtest"
    /\ LET g == CtxGet(ctxs[TestCtx], key)
       IN got' = [got EXCEPT ![r] = [key |-> key, value |-> g.value, exists |-> g.exists]]
    /\ UNCHANGED <<mode, unit, env, storeVars, engineVars, localVars, histVars, httpVars,
                   wpos, snap, executors, regOut, lastReg, mapVars>>

InitCtx ==
    /\ InitCommon
    /\ workflows = EmptyStore
    /\ mode = "ctxtest"
    /\ env = [logFaults |-> FALSE, execFaults |-> FALSE]

NextCtx ==
    \/ \E w \in Writers : WriterSet(w)
    \/ \E r \in Readers : ReaderGetAll(r)
    \/ \E r \in Readers, key \in TestKeys : ReaderGet(r, key)

SpecCtx == InitCtx /\ [][NextCtx]_vars

\* ------------------------------------------------------- the registry test
\* registry.Register(taskType, executor); lastReg records the call.
Register(taskType, executor) ==
    /\ mode = "regtest"
    /\ executors' = RegistryRegister(executors, taskType, executor)
    /\ lastReg' = [lastReg EXCEPT ![taskType] = executor]
    /\ UNCHANGED <<mode, unit, env, storeVars, engineVars, localVars, histVars, httpVars,
                   wpos, snap, got, regOut, mapVars>>

\* registry.Get(taskType)
Get(taskType) ==
    /\ mode = "regtest"
    /\ LET g == RegistryGetIn(executors, taskType)
       IN regOut' = [call |-> "get", type |-> taskType, executor |-> g.executor,
                     err |-> g.err, list |-> << >>]
    /\ UNCHANGED <<mode, unit, env, storeVars, engineVars, localVars, histVars, httpVars,
                   wpos, snap, got, executors, lastReg, mapVars>>

\* registry.List()
List ==
    /\ mode = "regtest"
    /\ \E l \in RegistryList(executors) :
          regOut' = [call |-> "list", type |-> "", executor |-> "nil",
                     err |-> NoError, list |-> l]
    /\ UNCHANGED <<mode, unit, env, storeVars, engineVars, localVars, histVars, httpVars,
                   wpos, snap, got, executors, lastReg, mapVars>>

InitReg ==
    /\ InitCommon
    /\ workflows = EmptyStore
    /\ mode = "regtest"
    /\ env = [logFaults |-> FALSE, execFaults |-> FALSE]

NextReg ==
    \/ \E t \in RegTypes, x \in RegExecutors : Register(t, x)
    \/ \E t \in RegTypes : Get(t)
    \/ List

SpecReg == InitReg /\ [][NextReg]_vars

\* The logging runner started by the run endpoint (id of a stored record),
\* by a caller passing the id of a record not stored yet, or by a caller
\* passing no id; both persistence ports may fail any call.
InitMaterialize ==
    /\ InitCommon
    /\ workflows = ProgressWorkflows
    /\ mode \in {"api", "direct", "directid"}
    /\ env = [logFaults |-> TRUE, execFaults |-> TRUE]

SpecMaterialize == InitMaterialize /\ [][NextFaults]_vars

\* Between two calls a direct caller writes into the engine's context:
\* engine.GetContext().Set("seed", ...).
SetThroughGetContext ==
    /\ mode = "direct"
    /\ \A e \in ExecIds : pc[e] \in {"idle", "done"}
    /\ "seed" \notin DOMAIN ctxs[engineCtx]
    /\ ctxs' = [ctxs EXCEPT ![engineCtx] = CtxSet(@, "seed", "planted")]
    /\ UNCHANGED <<mode, unit, env, storeVars, engineCtx, localVars, histVars, httpVars,
                   unitVars>>

\* Logged runs started by the run endpoint (concurrent) or one after the
\* other by a direct caller that also writes into the engine's context.
InitFresh ==
    /\ InitCommon
    /\ workflows = ProgressWorkflows
    /\ mode \in {"api", "direct"}
    /\ env = [logFaults |-> FALSE, execFaults |-> FALSE]

NextFresh ==
    \/ \E param \in ValidRunRequests : RunWorkflow(param)
    \/ \E w \in DOMAIN workflows : CallExecuteWithLogging(w)
    \/ SetThroughGetContext
    \/ \E e \in ExecIds : StartExecution(e)
    \/ \E e \in ExecIds : LookupMiss(e)
    \/ \E e \in ExecIds : ExecuteTask(e)
    \/ \E e \in ExecIds : PublishResult(e)
    \/ \E e \in ExecIds : FinishExecution(e)

SpecFresh == InitFresh /\ [][NextFresh]_vars

\* ------------------------------------------------------------ the map test
\* ExecutionContext with its map as a Go object: data points to a map,
\* Set writes into that map in place, Clear makes a new one, GetAll makes a
\* new one and fills it key by key from the map data points to.  Set, Get
\* and Clear are a lock, one statement and the unlock: one step each.
\* GetAll holds RLock from its first step to its return.

\* The map objects some variable points to.
Referenced(readers, data) ==
    ({data} \cup UNION {{readers[r].src, readers[r].new, readers[r].ret} :
                           r \in Readers}) \ {NilMap}

\* make(map[string]interface{}): a map object nothing points to.
Make(refs) ==
    CHOOSE p \in Ptrs : p \notin refs /\ \A q \in Ptrs : q \notin refs => p <= q

\* The heap once the maps nothing points to are gone.
Collect(h, refs) == [p \in Ptrs |-> IF p \in refs THEN h[p] ELSE EmptyMap]

\* A write lock that does not wait for the readers.
CanWriteUnlocked(holders) == TRUE

\* ctx.mu.Lock() returns only when no goroutine holds RLock.
CanWrite(holders) == holders = {}

\* A GetAll that hands out the context's own map.
SnapshotAliased(fresh, data) == data

\* snapshot := make(...): the map GetAll fills and returns.
SnapshotMap(fresh, data) == fresh

\* ctx.Set(key, value)
ContextSet(key, value) ==
    /\ mode = "maptest"
    /\ CanWrite(mu)
    /\ heap' = [heap EXCEPT ![dataPtr] = CtxSet(@, key, value)]
    /\ abs' = CtxSet(abs, key, value)
    /\ UNCHANGED <<mode, unit, env, storeVars, engineVars, localVars, histVars, httpVars,
                   wpos, snap, got, executors, regOut, lastReg, dataPtr, mu, rd>>

\* ctx.Clear(): ctx.data = make(...)
ContextClear ==
    /\ mode = "maptest"
    /\ CanWrite(mu)
    /\ LET q == Make(Referenced(rd, dataPtr))
       IN /\ dataPtr' = q
          /\ heap' = Collect([heap EXCEPT ![q] = EmptyMap], Referenced(rd, q))
    /\ abs' = EmptyMap
    /\ UNCHANGED <<mode, unit, env, storeVars, engineVars, localVars, histVars, httpVars,
                   wpos, snap, got, executors, regOut, lastReg, mu, rd>>

\* ctx.Get(key)
ContextGet(r, key) ==
    /\ mode = "maptest"
    /\ rd[r].pc = "idle"
    /\ LET g == CtxGet(heap[dataPtr], key)
       IN got' = [got EXCEPT ![r] = [key |-> key, value |-> g.value, exists |-> g.exists]]
    /\ UNCHANGED <<mode, unit, env, storeVars, engineVars, localVars, histVars, httpVars,
                   wpos, snap, executors, regOut, lastReg, mapVars>>

\* ctx.GetAll(): RLock, make the snapshot map, start ranging over ctx.data.
GetAllLock(r) ==
    /\ mode = "maptest"
    /\ rd[r].pc = "idle"
    /\ mu' = mu \cup {r}
    /\ LET q == SnapshotMap(Make(Referenced(rd, dataPtr)), dataPtr)
       IN rd' = [rd EXCEPT ![r] = [pc |-> "copy", src |-> dataPtr,
                                   todo |-> DOMAIN heap[dataPtr], new |-> q,
                                   ret |-> @.ret]]
    /\ UNCHANGED <<mode, unit, env, storeVars, engineVars, localVars, histVars, httpVars,
                   wpos, snap, got, executors, regOut, lastReg, heap, dataPtr, abs>>

\* One iteration of the range loop: snapshot[k] = v
GetAllCopy(r) ==
    /\ mode = "maptest"
    /\ rd[r].pc = "copy"
    /\ \E k \in rd[r].todo :
          /\ heap' = [heap EXCEPT ![rd[r].new] = CtxSet(@, k, heap[rd[r].src][k])]
          /\ rd' = [rd EXCEPT ![r].todo = @ \ {k}]
    /\ UNCHANGED <<mode, unit, env, storeVars, engineVars, localVars, histVars, httpVars,
                   wpos, snap, got, executors, regOut, lastReg, dataPtr, mu, abs>>

\* The loop is over: RUnlock, return the snapshot.
GetAllReturn(r) ==
    /\ mode = "maptest"
    /\ rd[r].pc = "copy"
    /\ rd[r].todo = {}
    /\ mu' = mu \ {r}
    /\ rd' = [rd EXCEPT ![r] = IdleReader(rd[r].new)]
    /\ heap' = Collect(heap, Referenced(rd', dataPtr))
    /\ UNCHANGED <<mode, unit, env, storeVars, engineVars, localVars, histVars, httpVars,
                   wpos, snap, got, executors, regOut, lastReg, dataPtr, abs>>

\* The caller writes into the map it was returned: snapshot[key] = "newValue"
MutateSnapshot(r, key) ==
    /\ mode = "maptest"
    /\ rd[r].pc = "idle"
    /\ rd[r].ret # NilMap
    /\ heap' = [heap EXCEPT ![rd[r].ret] = CtxSet(@, key, "newValue")]
    /\ UNCHANGED <<mode, unit, env, storeVars, engineVars, localVars, histVars, httpVars,
                   wpos, snap, got, executors, regOut, lastReg, dataPtr, mu, rd, abs>>

\* The caller deletes from the map it was returned: delete(snapshot, key)
DeleteFromSnapshot(r, key) ==
    /\ mode = "maptest"
    /\ rd[r].pc = "idle"
    /\ rd[r].ret # NilMap
    /\ key \in DOMAIN heap[rd[r].ret]
    /\ heap' = [heap EXCEPT ![rd[r].ret] = [k \in DOMAIN @ \ {key} |-> @[k]]]
    /\ UNCHANGED <<mode, unit, env, storeVars, engineVars, localVars, histVars, httpVars,
                   wpos, snap, got, executors, regOut, lastReg, dataPtr, mu, rd, abs>>

InitMap ==
    /\ InitCommon
    /\ workflows = EmptyStore
    /\ mode = "maptest"
    /\ env = [logFaults |-> FALSE, execFaults |-> FALSE]

NextMap ==
    \/ \E key \in MapKeys, value \in MapValues : ContextSet(key, value)
    \/ ContextClear
    \/ \E r \in Readers, key \in MapKeys : ContextGet(r, key)
    \/ \E r \in Readers : GetAllLock(r)
    \/ \E r \in Readers : GetAllCopy(r)
    \/ \E r \in Readers : GetAllReturn(r)
    \/ \E r \in Readers, key \in MapKeys \cup {"modified"} : MutateSnapshot(r, key)
    \/ \E r \in Readers, key \in MapKeys \cup {"modified"} : DeleteFromSnapshot(r, key)

SpecMap == InitMap /\ [][NextMap]_vars

\* ---------------------------------------------------------------- properties
\* Executions the run endpoint created.
ApiExecutions == IF mode = "api" THEN DOMAIN executions ELSE {}

Finished(e) == pc[e] = "done"
IsTerminal(e) == executions[e].status \in Terminal
SnapshotObject(e) == executions[e].context_snapshot[2]
UniqueIds(tasks) == \A i, j \in 1..Len(tasks) : i # j => tasks[i].ID # tasks[j].ID
Succeeded(e) == {k \in 1..Len(calls[e]) : calls[e][k].result.Status = "success"}
AllSucceeded(e) == Len(calls[e]) = Len(wf[e]) /\ Succeeded(e) = 1..Len(calls[e])
TaskLogsOf(e) == GetByExecutionID(taskLogs, e)

\* The tasks of e whose type the registry does not know.
Unregistered(e) == {i \in 1..Len(wf[e]) : wf[e][i].Type \notin RegisteredTypes}

\* The runner of e came to task m, every task before it having succeeded.
Reached(e, m) == \A i \in 1..(m - 1) : \E k \in Succeeded(e) : calls[e][k].task = i

\* The index of the first failing (or executor-missing) task of a finished
\* execution, the number of tasks when none failed.
FirstFailing(e) ==
    IF Len(calls[e]) = Len(wf[e]) \/ Succeeded(e) # 1..Len(calls[e])
    THEN Len(calls[e])
    ELSE Len(calls[e]) + 1

ResultKeyPublished ==
    \A e \in ApiExecutions :
        (IsTerminal(e) /\ UniqueIds(wf[e])) =>
            \A k \in Succeeded(e) :
                LET key == ResultKey(wf[e][calls[e][k].task].ID)
                IN /\ key \in DOMAIN SnapshotObject(e)
                   /\ SnapshotObject(e)[key] = Marshal(calls[e][k].result.Output)

\* One step of the stored Executions: a row is created `pending`, is never
\* removed, moves only pending -> running -> completed | failed, and does
\* not change once terminal.
LifecycleStep ==
    /\ DOMAIN executions \subseteq DOMAIN executions'
    /\ \A e \in DOMAIN executions' :
        IF e \notin DOMAIN executions
        THEN executions'[e].status = "pending"
        ELSE LET a == executions[e].status
                 b == executions'[e].status
             IN /\ a \in Terminal => executions'[e] = executions[e]
                /\ a # b => <<a, b>> \in {<<"pending", "running">>,
                                          <<"running", "completed">>,
                                          <<"running", "failed">>}

\* C3: the persisted status of an execution of the run endpoint moves only
\* pending -> running -> (completed | failed), and once it is terminal no
\* store operation changes any field of the record.
Lifecycle == [][LifecycleStep]_vars

\* Two executions went through the whole lifecycle.
LifecycleWitness ==
    /\ mode = "api"
    /\ \A e \in ExecIds :
        /\ e \in DOMAIN executions /\ IsTerminal(e)
        /\ statusHist[e] = <<"pending", "running", executions[e].status>>

\* C4: concurrent executions on the Engine the run endpoint shares read and
\* write only their own context: every executor is handed the context of
\* its own execution, every result is published into it, and the stored
\* snapshot holds the keys of the own execution only.
ExecutionsIndependent ==
    \A e \in ApiExecutions :
        /\ \A k \in 1..Len(calls[e]) : calls[e][k].ctx = e
        /\ \A s \in 1..Len(sets[e]) : sets[e][s].ctx = e
        /\ IsTerminal(e) =>
             DOMAIN SnapshotObject(e) = {sets[e][s].key : s \in 1..Len(sets[e])}

\* completed_at is set exactly on the terminal rows, is not before
\* started_at, and a finished run has left its row terminal.
CompletedAtInv ==
    \A e \in ApiExecutions :
        /\ (executions[e].completed_at # NullTime) <=> IsTerminal(e)
        /\ IsTerminal(e) => executions[e].completed_at >= executions[e].started_at
        /\ Finished(e) => IsTerminal(e)

\* completed_at changes only in the step that takes the row from a
\* non-terminal to a terminal status, which happens at most once.
TerminalStep ==
    \A e \in DOMAIN executions \cap DOMAIN executions' :
        LET toTerminal == /\ executions[e].status \notin Terminal
                          /\ executions'[e].status \in Terminal
        IN /\ executions'[e].completed_at # executions[e].completed_at => toTerminal
           /\ toTerminal => /\ executions[e].completed_at = NullTime
                            /\ executions'[e].completed_at # NullTime
           /\ executions[e].status \in Terminal =>
                executions'[e].status = executions[e].status

\* C5: the status of an execution goes from non-terminal to terminal exactly
\* once, completed_at is set exactly once, in that same transition, and
\* completed_at >= started_at.
SingleTerminalTransition == [](CompletedAtInv) /\ [][TerminalStep]_vars

\* An execution is terminal with completed_at after started_at.
SingleTerminalTransitionWitness ==
    \E e \in ApiExecutions :
        /\ Finished(e) /\ IsTerminal(e)
        /\ executions[e].completed_at > executions[e].started_at
        /\ Len(statusHist[e]) = 3

\* The context snapshot of an Execution is non-null exactly when its status
\* is terminal.
SnapshotNullness ==
    \A e \in ApiExecutions :
        (executions[e].context_snapshot # NullJSON) <=> IsTerminal(e)

\* C6: the context snapshot is non-null iff the status is terminal, and on a
\* failed execution it holds the `<id>_result` keys of all tasks that
\* succeeded before the failure.
SnapshotIffTerminal ==
    /\ SnapshotNullness
    /\ \A e \in ApiExecutions :
        (executions[e].status = "failed" /\ UniqueIds(wf[e])) =>
            \A k \in Succeeded(e) :
                ResultKey(wf[e][calls[e][k].task].ID) \in DOMAIN SnapshotObject(e)

\* A finished execution is `completed` with a nil error exactly when every
\* task was executed and succeeded, `failed` with an error otherwise.
StatusMatchesOutcomes ==
    \A e \in ApiExecutions :
        Finished(e) =>
            /\ (executions[e].status = "completed" /\ ret[e].err = NoError)
                   <=> AllSucceeded(e)
            /\ ~AllSucceeded(e) =>
                   executions[e].status = "failed" /\ ret[e].err # NoError

\* C7: the terminal status is `completed` and the returned error nil iff
\* every task was executed and succeeded (an empty task list yields
\* `completed` with an empty snapshot); otherwise `failed` and non-nil.
TerminalStatusMatchesOutcomes ==
    /\ StatusMatchesOutcomes
    /\ \A e \in ApiExecutions :
        (Finished(e) /\ Len(wf[e]) = 0) =>
            /\ executions[e].status = "completed"
            /\ executions[e].context_snapshot = MarshalMap(EmptyMap)

\* The task logs of a finished execution, read back ordered by started_at,
\* are logs of attempted tasks only, in workflow order, at most one a task.
TaskLogsInOrder(e) ==
    LET logs == TaskLogsOf(e)
    IN /\ \A n \in 1..Len(logs) :
            /\ logs[n].id[2] \in 1..FirstFailing(e)
            /\ logs[n].task_id = wf[e][logs[n].id[2]].ID
            /\ logs[n].task_type = wf[e][logs[n].id[2]].Type
       /\ \A m, n \in 1..Len(logs) : m < n => logs[m].id[2] < logs[n].id[2]

\* The task logs are exactly one log for each of the tasks 1..k.
OneLogPerAttempt(e) ==
    LET logs == TaskLogsOf(e)
    IN /\ Len(logs) = FirstFailing(e)
       /\ \A n \in 1..Len(logs) : logs[n].id = <<e, n>>

\* C8 as stated: the task logs of an execution, sorted by started_at
\* ascending, are in workflow order the logs of tasks 1..k, k the index of
\* the first failing (or executor-missing) task or the number of tasks:
\* exactly one log for each attempted task, none for a task after k.
TaskLogOrdering ==
    \A e \in ApiExecutions :
        Finished(e) => TaskLogsInOrder(e) /\ OneLogPerAttempt(e)

\* C8 amended: the task logs sorted by started_at ascending are in workflow
\* order logs of tasks among 1..k, at most one for each attempted task and
\* none for a task after k; exactly one for each attempted task provided no
\* TaskLogStore call of the execution failed.
TaskLogOrderingWhenStored ==
    \A e \in ApiExecutions :
        Finished(e) =>
            /\ TaskLogsInOrder(e)
            /\ ~logOps[e].fail => OneLogPerAttempt(e)

\* An execution whose second task has no executor left two logs, none for
\* its third task, and a sibling execution lost a log to a store failure.
TaskLogOrderingWitness ==
    /\ \E e \in ApiExecutions :
        /\ Finished(e) /\ ~logOps[e].fail
        /\ Len(wf[e]) = 3 /\ FirstFailing(e) = 2
        /\ Len(TaskLogsOf(e)) = 2
    /\ \E e \in ApiExecutions :
        /\ Finished(e) /\ logOps[e].fail
        /\ Len(TaskLogsOf(e)) < FirstFailing(e)

\* C9: with a TaskLogStore that fails every call, an execution whose tasks
\* all succeed still invokes every executor in order, ends `completed` with
\* a non-null snapshot, and returns a nil error.
LoggingFailureTolerated ==
    \A e \in ApiExecutions :
        (/\ Finished(e)
         /\ ~logOps[e].ok
         /\ Unregistered(e) = {}
         /\ Succeeded(e) = 1..Len(calls[e])) =>
            /\ Len(calls[e]) = Len(wf[e])
            /\ \A k \in 1..Len(calls[e]) : calls[e][k].task = k
            /\ executions[e].status = "completed"
            /\ executions[e].context_snapshot # NullJSON
            /\ ret[e].returned /\ ret[e].err = NoError

\* A two-task execution completed while every TaskLogStore call failed.
LoggingFailureToleratedWitness ==
    \E e \in ApiExecutions :
        /\ Finished(e) /\ Len(wf[e]) = 2 /\ AllSucceeded(e)
        /\ logOps[e].fail /\ ~logOps[e].ok
        /\ TaskLogsOf(e) = << >>
        /\ executions[e].status = "completed"

\* The finished runs that came to a task without executor, with that task.
MissingExecutorRuns ==
    {<<e, m>> \in ExecIds \X (1..(MaxTasks + 1)) :
        /\ Finished(e)
        /\ m \in Unregistered(e) /\ \A i \in Unregistered(e) : m <= i
        /\ Reached(e, m)}

\* What a run leaves for a task without executor whether or not the task
\* log was stored: no executor invoked for it or a later task, no later
\* task log, the execution `failed`; Engine.Execute returns an error with
\* `task executor not found` and the type.
MissingExecutorHalts(e, m) ==
    /\ \A k \in 1..Len(calls[e]) : calls[e][k].task < m
    /\ IF mode = "api"
       THEN /\ executions[e].status = "failed"
            /\ \A n \in 1..Len(TaskLogsOf(e)) : TaskLogsOf(e)[n].id[2] <= m
       ELSE /\ Contains(ret[e].err, "task executor not found")
            /\ Contains(ret[e].err, wf[e][m].Type)

\* Exactly one task log for the task, `failed`, its error naming the type.
MissingExecutorLogged(e, m) ==
    LET logs == TaskLogsOf(e)
        mine == {n \in 1..Len(logs) : logs[n].task_id = wf[e][m].ID}
    IN /\ Cardinality(mine) = 1
       /\ \A n \in mine : /\ logs[n].id = <<e, m>>
                          /\ logs[n].status = "failed"
                          /\ Contains(logs[n].error, wf[e][m].Type)

\* C10 as stated: for a task whose type has no executor the logging runner
\* records exactly one task log with status `failed` and an error containing
\* the type, invokes no executor for it, creates no later task logs and ends
\* the execution `failed`; the un-logged runner returns an error containing
\* `task executor not found` and the type.
MissingExecutor ==
    \A p \in MissingExecutorRuns :
        /\ MissingExecutorHalts(p[1], p[2])
        /\ mode = "api" => MissingExecutorLogged(p[1], p[2])

\* C10 amended: the same, the one `failed` task log being recorded provided
\* no TaskLogStore call of the execution failed.
MissingExecutorWhenStored ==
    \A p \in MissingExecutorRuns :
        /\ MissingExecutorHalts(p[1], p[2])
        /\ (mode = "api" /\ ~logOps[p[1]].fail) => MissingExecutorLogged(p[1], p[2])

\* A logged execution came to its second task, which has no executor, with
\* a working TaskLogStore.
MissingExecutorWitness ==
    \E p \in MissingExecutorRuns :
        /\ mode = "api" /\ p[2] = 2 /\ ~logOps[p[1]].fail
        /\ Len(TaskLogsOf(p[1])) = 2
        /\ executions[p[1]].status = "failed"

\* The runs whose Execution record could not be materialized: the runner
\* has returned and never stored status `running`.
AbortedRuns ==
    {e \in ExecIds : /\ mode \in {"api", "direct"}
                     /\ Finished(e)
                     /\ \A n \in 1..Len(statusHist[e]) : statusHist[e][n] # "running"}

\* C11: when the ExecutionStore call that materializes the Execution record
\* at the start of ExecuteWithLogging fails (create, or update when an id
\* is supplied), no executor is invoked, no task log is created, the context
\* is not published and an error is returned.
PrimaryFailureAborts ==
    \A e \in AbortedRuns :
        /\ calls[e] = << >>
        /\ sets[e] = << >>
        /\ TaskLogsOf(e) = << >>
        /\ ~logOps[e].ok /\ ~logOps[e].fail
        /\ e \in DOMAIN executions =>
               /\ executions[e].context_snapshot = NullJSON
               /\ executions[e].status = "pending"
        /\ ret[e].returned /\ ~ret[e].record /\ ret[e].err # NoError

\* A run of the endpoint was aborted on a workflow with tasks, its row left
\* `pending`, while the other execution ran to the end.
PrimaryFailureAbortsWitness ==
    \E e \in AbortedRuns :
        /\ mode = "api" /\ Len(wf[e]) = 2
        /\ e \in DOMAIN executions
        /\ \E f \in ExecIds \ {e} : Finished(f) /\ f \notin AbortedRuns /\ calls[f] # << >>

\* C12: when the executor of task N+1 is invoked the executor of task N has
\* returned success and the context it is handed holds `<id>_result` of
\* every task 1..N; the executors of one execution run one after the other;
\* and the context of an execution holds the result key of a task (ids
\* unique) only after that task's executor returned success.
SequentialVisibility ==
    \A e \in ApiExecutions :
        UniqueIds(wf[e]) =>
            /\ \A k \in 1..Len(calls[e]) :
                 /\ calls[e][k].task = k
                 /\ k > 1 => calls[e][k - 1].result.Status = "success"
            /\ pc[e] = "publish" =>
                 \A j \in 1..(idx[e] - 1) :
                     ResultKey(wf[e][j].ID) \in DOMAIN ctxs[calls[e][Len(calls[e])].ctx]
            /\ pc[e] \in {"task", "publish", "finish"} =>
                 \A key \in DOMAIN ctxs[e] :
                     \E k \in Succeeded(e) : key = ResultKey(wf[e][calls[e][k].task].ID)

\* The executions the run endpoint has answered 202 for.
Accepted == {e \in ExecIds : mode = "api" /\ pc[e] \notin {"idle", "rejected"}}

\* The record of an accepted execution is in the store from the acceptance
\* on; the runner finds it `pending` when it starts; the 202 carries the id
\* of that record and `pending`; a GET of an accepted id answers 200.
AcceptedVisible ==
    /\ \A e \in Accepted :
        /\ e \in DOMAIN executions
        /\ pc[e] = "start" => executions[e].status = "pending" /\ calls[e] = << >>
    /\ (resp.handler = "run" /\ resp.code = 202) =>
        /\ resp.id \in Accepted /\ resp.status = "pending"
        /\ executions[resp.id].workflow_id = UuidParse(resp.req).id
    /\ (resp.handler = "get" /\ UuidParse(resp.req).ok
             /\ UuidParse(resp.req).id \in Accepted) =>
        /\ resp.code = 200 /\ resp.id = UuidParse(resp.req).id

\* The step that accepts a run request: the record is created `pending`
\* with a fresh id, the runner is started with that id and has run no task,
\* and the answer is 202 with that id and `pending`.
AcceptStep ==
    \A e \in ExecIds :
        (e \notin Accepted /\ e \in Accepted') =>
            /\ e \notin DOMAIN executions /\ e \in DOMAIN executions'
            /\ executions'[e].status = "pending"
            /\ pc'[e] = "start" /\ calls'[e] = << >>
            /\ resp' = Response("run", resp'.req, 202, e, "pending")

\* C13: POST /workflows/{id}/run creates the Execution `pending`, then starts
\* the runner with that record's id and answers 202 with that id and
\* `pending` without waiting for a task; a GET /executions/{id} after the
\* answer finds the record, and the runner's first store operation finds
\* the row present.
AcceptAndRun == [](AcceptedVisible) /\ [][AcceptStep]_vars

\* A GET right after the 202 found the record `pending`, the runner not yet
\* started, while the first execution was in its task loop.
AcceptAndRunWitness ==
    /\ resp = Response("get", <<"uuid", 2>>, 200, 2, "pending")
    /\ pc[2] = "start"
    /\ pc[1] = "publish"

\* Why the run endpoint rejects a path parameter, "" when it does not.
RunRejection(param) ==
    LET parsed == UuidParse(param)
    IN IF ~parsed.ok THEN "invalid id"
       ELSE IF parsed.id \notin DOMAIN workflows THEN "no workflow"
       ELSE IF workflows[parsed.id].definition = UndecodableJSON THEN "undecodable"
       ELSE ""

\* A step in which the run endpoint answers a request it must reject.
RejectionStep ==
    (resp' # resp /\ resp'.handler = "run" /\ RunRejection(resp'.req) # "") =>
        /\ resp'.code = IF RunRejection(resp'.req) = "no workflow" THEN 404 ELSE 400
        /\ UNCHANGED <<executions, taskLogs, nextExec, pc, engineVars, wf, calls, sets>>

\* C15: a run request whose workflow id is not a valid identifier (400),
\* whose workflow does not exist (404) or whose stored definition cannot be
\* decoded (400) creates no Execution record, starts no background runner
\* and creates no task log.
RejectionLeavesNoTrace == [][RejectionStep]_vars

\* The run of the undecodable workflow was rejected while an execution was
\* under way.
RejectionLeavesNoTraceWitness ==
    /\ resp = Response("run", <<"uuid", 2>>, 400, 0, "")
    /\ nextExec = 1 /\ pc[1] = "publish"
    /\ DOMAIN executions = {1}

\* No two stored workflows have the same name.
NamesUnique ==
    \A a, b \in DOMAIN workflows : a # b => workflows[a].name # workflows[b].name

\* A POST or PUT that would give a workflow the name of another stored
\* workflow is answered 409 and leaves the store unchanged.
DuplicateStep ==
    /\ (resp' # resp /\ resp'.handler = "create"
             /\ NameTaken(workflows, 0, resp'.req[1])) =>
           resp'.code = 409 /\ workflows' = workflows
    /\ (resp' # resp /\ resp'.handler = "update"
             /\ UuidParse(resp'.req[1]).ok
             /\ UuidParse(resp'.req[1]).id \in DOMAIN workflows
             /\ NameTaken(workflows, UuidParse(resp'.req[1]).id, resp'.req[2])) =>
           resp'.code = 409 /\ workflows' = workflows

\* C20: after any sequence of POST /workflows, PUT /workflows/{id} and
\* DELETE /workflows/{id} no two stored workflows have the same name, and a
\* POST or PUT that would give a workflow the name of another existing
\* workflow is answered 409 and leaves the store unchanged.
WorkflowNameUniqueness == [](NamesUnique) /\ [][DuplicateStep]_vars

RunningHasNoCompletedAt ==
    \A id \in DOMAIN taskLogs :
        taskLogs[id].status = "running" => taskLogs[id].completed_at = NullTime

\* C14: every execution the run endpoint accepted eventually has the
\* persisted status `completed` or `failed`, provided executor calls
\* return, the ExecutionStore calls succeed and the goroutine is scheduled.
Progress ==
    \A e \in ExecIds :
        (e \in Accepted) ~>
            (e \in DOMAIN executions /\ executions[e].status \in Terminal)

\* Both accepted executions are persisted terminal, one `completed` and
\* one `failed`, although a task log could not be updated.
ProgressWitness ==
    /\ Accepted = ExecIds
    /\ executions[1].status = "completed" /\ executions[2].status = "failed"
    /\ \E id \in DOMAIN taskLogs : taskLogs[id].status = "running"

\* The keys the writers have Set so far.
WrittenIds == UNION {{KeyId(w, j) : j \in 1..wpos[w]} : w \in Writers}

\* A map holds only written keys, each with its written value.
OnlyWritten(m) ==
    \A k \in DOMAIN m : \E id \in WrittenIds : k = KeyOf(id) /\ m[k] = ValueOf(id)

\* C16: with N writers each calling Set on M distinct keys and K readers
\* calling GetAll and Get, the context holds exactly the keys written so
\* far with their values (N*M once every writer has finished), and what a
\* reader was returned holds only keys some writer had already set, each
\* with its written value.
ContextThreadSafety ==
    /\ DOMAIN ctxs[TestCtx] = {KeyOf(id) : id \in WrittenIds}
    /\ OnlyWritten(ctxs[TestCtx])
    /\ (\A w \in Writers : wpos[w] = MKeys) =>
           Cardinality(DOMAIN ctxs[TestCtx]) = NWriters * MKeys
    /\ \A r \in Readers :
        /\ snap[r].taken => OnlyWritten(snap[r].data)
        /\ got[r].exists =>
               \E id \in WrittenIds :
                   got[r].key = KeyOf(id) /\ got[r].value = ValueOf(id)

\* Every writer has finished; a reader holds a snapshot taken half way and
\* has read the last key.
ContextThreadSafetyWitness ==
    /\ mode = "ctxtest"
    /\ \A w \in Writers : wpos[w] = MKeys
    /\ Cardinality(DOMAIN ctxs[TestCtx]) = NWriters * MKeys
    /\ \E r \in Readers :
        /\ snap[r].taken /\ Cardinality(DOMAIN snap[r].data) = MKeys
        /\ got[r].exists /\ got[r].key = KeyOf(NWriters * MKeys)

\* The types some Register call has registered.
Registered == {t \in RegTypes : lastReg[t] # "none"}

\* Each registered type maps to the executor of the latest Register.
OneExecutorPerType ==
    /\ DOMAIN executors = Registered
    /\ \A t \in Registered : executors[t] = lastReg[t]

\* What a Get or List call returns, against the Register calls before it.
RegistryStep ==
    /\ (regOut' # regOut /\ regOut'.call = "get") =>
           IF regOut'.type \in Registered
           THEN regOut'.executor = lastReg[regOut'.type] /\ regOut'.err = NoError
           ELSE /\ regOut'.executor = "nil"
                /\ regOut'.err # NoError
                /\ Contains(regOut'.err, regOut'.type)
    /\ (regOut' # regOut /\ regOut'.call = "list") =>
           /\ {regOut'.list[i] : i \in DOMAIN regOut'.list} = Registered
           /\ Len(regOut'.list) = Cardinality(Registered)

\* C17: under any interleaving of Register, Get and List each type maps to
\* one executor, Get returns the executor of the latest Register of the
\* type (overwrite on collision), Get of a type never registered returns a
\* nil executor and an error naming the type, and List returns exactly the
\* registered types, each once.
RegistrySemantics == [](OneExecutorPerType) /\ [][RegistryStep]_vars

\* Get returned the executor its type was last registered with; another
\* type is registered, a third is not.
RegistrySemanticsWitness ==
    /\ mode = "regtest"
    /\ regOut.call = "get" /\ regOut.type = "ta" /\ regOut.executor = "x2"
    /\ lastReg = [t \in RegTypes |-> IF t = "ta" THEN "x2"
                                     ELSE IF t = "tb" THEN "x1" ELSE "none"]

\* The step in which a run gets past its Execution record: the record is
\* the only row added, it is `running` with the run's workflow id and a new
\* started_at, no other row changes, a minted id was not stored before;
\* a run that does not get past it stores nothing.
MaterializeStep ==
    \A e \in ExecIds :
        (pc[e] = "start" /\ pc'[e] # "start") =>
            IF pc'[e] \in {"task", "finish"}
            THEN /\ DOMAIN executions' = DOMAIN executions \cup {e}
                 /\ executions'[e].status = "running"
                 /\ executions'[e].workflow_id = wfid[e]
                 /\ executions'[e].started_at = clk'[e]
                 /\ \A o \in DOMAIN executions \ {e} : executions'[o] = executions[o]
                 /\ ~IdSupplied => e \notin DOMAIN executions
                 /\ execution'[e].ID = e
            ELSE executions' = executions

\* Every task log carries the id of the record of its run, which carries
\* the run's workflow id.
TaskLogsOfRecord ==
    \A id \in DOMAIN taskLogs :
        /\ taskLogs[id].execution_id = id[1]
        /\ id[1] \in DOMAIN executions
        /\ executions[id[1]].workflow_id = wfid[id[1]]

\* C21: given an execution id ExecuteWithLogging updates the record to
\* `running` with a new started_at and creates it only when it is absent,
\* given none it mints an id and creates the record `running`; after the
\* step one Execution record exists for the run, with the run's workflow
\* id, and its id is the execution_id of every task log of the run.
RecordMaterialization == [](TaskLogsOfRecord) /\ [][MaterializeStep]_vars

\* A run given the id of a record not stored yet has materialized it and
\* logged a task under it.
RecordMaterializationWitness ==
    /\ mode = "directid"
    /\ 1 \in DOMAIN executions /\ executions[1].status = "running"
    /\ \E id \in DOMAIN taskLogs : id[1] = 1

\* No executor call and no Set of a run used a context the engine had
\* before the run was entered, and a context not yet made holds nothing.
NoPriorContext ==
    /\ \A e \in ExecIds :
        /\ \A k \in 1..Len(calls[e]) : calls[e][k].ctx \notin prior[e]
        /\ \A k \in 1..Len(sets[e]) : sets[e][k].ctx \notin prior[e]
    /\ \A c \in ExecIds : c \notin EverEngineContext => ctxs[c] = EmptyMap

\* Entering a run replaces the engine's context by a new empty one before
\* any task has run; the snapshot is taken from a context the engine did
\* not have before the run, so it holds no key that context held.
FreshStep ==
    \A e \in ExecIds :
        /\ (pc[e] = "start" /\ pc'[e] # "start") =>
              /\ engineCtx' \notin EverEngineContext
              /\ ctxs'[engineCtx'] = EmptyMap
              /\ calls'[e] = << >>
        /\ (pc[e] = "finish" /\ pc'[e] = "done") =>
              /\ engineCtx \notin prior[e]
              /\ executions'[e].context_snapshot = MarshalMap(ctxs[engineCtx])

\* C22: ExecuteWithLogging replaces the engine's context with a new empty
\* one before any task runs; keys present in the engine's context before
\* the call are neither visible to the run's executors nor present in its
\* snapshot.
FreshContextPerRun == [](NoPriorContext) /\ [][FreshStep]_vars

\* The caller planted a key in the context the first run left behind; the
\* second run ended with a snapshot of its own one result.
FreshContextPerRunWitness ==
    /\ mode = "direct"
    /\ "seed" \in DOMAIN ctxs[1] /\ ResultKey(TaskId(1)) \in DOMAIN ctxs[1]
    /\ pc[2] = "done" /\ 2 \in DOMAIN executions
    /\ executions[2].context_snapshot = MarshalMap(ctxs[2])
    /\ DOMAIN ctxs[2] = {ResultKey(TaskId(1))}

\* The map a reader was returned is not the context's map.
SnapshotIsNewMap == \A r \in Readers : rd[r].ret # dataPtr

\* A step that is no Set and no Clear (the caller writing into or deleting
\* from its snapshot) leaves the context as it was; a Set or Clear leaves
\* every map already returned as it was.
SnapshotStep ==
    /\ abs' = abs => heap'[dataPtr'] = heap[dataPtr]
    /\ abs' # abs =>
          \A r \in Readers :
              (rd[r].pc = "idle" /\ rd[r].ret # NilMap) =>
                  heap'[rd[r].ret] = heap[rd[r].ret]

\* C23: the map GetAll returns is a new map; adding, changing or deleting
\* keys in it never changes the context, and Set or Clear calls after
\* GetAll returned never change the map already returned.
SnapshotIsCopy == [](SnapshotIsNewMap) /\ [][SnapshotStep]_vars

\* The reader added a key to its snapshot and deleted another; the context
\* was then cleared and set again, and neither shows in the other.
SnapshotIsCopyWitness ==
    /\ mode = "maptest"
    /\ \E r \in Readers :
          /\ rd[r].pc = "idle" /\ rd[r].ret # NilMap
          /\ heap[rd[r].ret] = [k \in {KeyOf(1), "modified"} |->
                                   IF k = "modified" THEN "newValue" ELSE "v1"]
    /\ heap[dataPtr] = [k \in {KeyOf(2)} |-> "v2"]

\* The context holds the keys set since the last Clear, each with the
\* value last set.
HoldsLastWrites == heap[dataPtr] = abs

\* What a Get or a GetAll returns is what the sequence of Set and Clear
\* calls completed by then gives; no Set or Clear takes place while a
\* GetAll is copying.
LinearStep ==
    /\ \A r \in Readers :
        /\ (rd[r].pc = "copy" /\ rd'[r].pc = "idle") => heap'[rd'[r].ret] = abs
        /\ got'[r] # got[r] =>
              LET g == CtxGet(abs, got'[r].key)
              IN got'[r].value = g.value /\ got'[r].exists = g.exists
    /\ mu # {} => abs' = abs /\ dataPtr' = dataPtr

\* C24: under concurrent Set, Get, GetAll and Clear every result is the
\* one a sequential ordering of the calls gives: Set overwrites (last
\* write wins), Clear empties, the context holds exactly the keys set
\* after the last Clear, and no snapshot shows a cleared key not set again.
ContextLinearizable == [](HoldsLastWrites) /\ [][LinearStep]_vars

\* After a Clear and an overwriting Set the context holds one key with the
\* later value, and the reader's GetAll returned just that.
ContextLinearizableWitness ==
    /\ mode = "maptest"
    /\ abs = [k \in {KeyOf(1)} |-> "v2"]
    /\ \E r \in Readers :
          /\ rd[r].pc = "idle" /\ rd[r].ret # NilMap /\ heap[rd[r].ret] = abs
          /\ got[r] = [key |-> KeyOf(2), value |-> "nil", exists |-> FALSE]

\* The positions of a runner that has been entered and has not returned.
RunnerPcs == {"start", "task", "publish", "finish", "uloop"}

\* A step of a runner leaves the workflows table and the definition the
\* runner was given as they were.
EngineStep ==
    \A e \in ExecIds :
        (pc[e] \in RunnerPcs /\ (pc'[e] # pc[e] \/ idx'[e] # idx[e])) =>
            /\ workflows' = workflows
            /\ wf'[e] = wf[e]
            /\ nextWf' = nextWf

\* C25: no step of Execute or ExecuteWithLogging, on success or failure,
\* creates, updates or deletes a Workflow record or changes the definition
\* it was given; only Execution and TaskLog records and the context change.
EngineNeverMutatesWorkflows == [][EngineStep]_vars

\* One logged run completed and one failed, task logs were written, and
\* the workflows table is the one the server started with.
EngineNeverMutatesWorkflowsWitness ==
    /\ mode = "api"
    /\ pc[1] = "done" /\ pc[2] = "done"
    /\ executions[1].status = "completed" /\ executions[2].status = "failed"
    /\ DOMAIN taskLogs # {}
    /\ workflows = StoredWorkflows


\* ------------------------------------------------------- duplicate task ids
\* Two stored workflows, both with two tasks of the same id: in one both are
\* mock tasks, in the other the second has no executor; the stores work.
\* Runs come from the run endpoint or, one at a time, from a direct caller.
WfDupMissing == <<Task(TaskId(1), "mock", "1"), Task(TaskId(1), "nonesuch", "2")>>

DupWorkflows ==
    <<WorkflowRow("dup", DefinitionJSON(WfDup)),
      WorkflowRow("dupmiss", DefinitionJSON(WfDupMissing))>>

InitDup ==
    /\ InitCommon
    /\ workflows = DupWorkflows
    /\ mode \in {"api", "direct"}
    /\ env = [logFaults |-> FALSE, execFaults |-> FALSE]

SpecDup == InitDup /\ [][NextFaults]_vars

\* The output of the last task of e with this id.
LaterOutput(e, id) ==
    LET last == CHOOSE i \in 1..Len(wf[e]) :
                    /\ wf[e][i].ID = id
                    /\ \A j \in 1..Len(wf[e]) : wf[e][j].ID = id => j <= i
    IN OutputOf(wf[e][last])

\* C26: a finished run of a workflow in which two tasks have the same id and
\* every task succeeded was not rejected and is `completed`, each task was
\* executed once and has a `success` task log, and the context the run wrote
\* into and its stored snapshot hold under `<id>_result` the output of the later task.
DuplicateIdsLastWriteWins ==
    \A e \in DOMAIN executions :
        (Finished(e) /\ ~UniqueIds(wf[e]) /\ AllSucceeded(e)) =>
            /\ executions[e].status = "completed"
            /\ \A i \in 1..Len(wf[e]) :
                   /\ calls[e][i].task = i
                   /\ \E id \in DOMAIN TaskLogsOf(e) :
                          /\ TaskLogsOf(e)[id].task_id = wf[e][i].ID
                          /\ TaskLogsOf(e)[id].status = "success"
                          /\ TaskLogsOf(e)[id].output = Marshal(OutputOf(wf[e][i]))
            /\ Cardinality(DOMAIN TaskLogsOf(e)) = Len(wf[e])
            /\ \A i \in 1..Len(wf[e]) :
                   LET key == ResultKey(wf[e][i].ID)
                       used == ctxs[sets[e][Len(sets[e])].ctx]
                   IN /\ key \in DOMAIN used
                      /\ used[key] = LaterOutput(e, wf[e][i].ID)
                      /\ key \in DOMAIN SnapshotObject(e)
                      /\ SnapshotObject(e)[key] = Marshal(LaterOutput(e, wf[e][i].ID))

\* ------------------------------------------------------------ process exit
\* DB.AutoMigrate(&Workflow{}, &Execution{}, &TaskLog{}) at start-up that
\* also closes the executions it finds open.
AutoMigrateSweep(store) ==
    [e \in DOMAIN store |->
        IF store[e].status \in Terminal THEN store[e]
        ELSE [store[e] EXCEPT !.status = "failed"]]

\* AutoMigrate: creates and alters tables, the rows stay as they are.
AutoMigrate(store) == store

\* The process exits (a signal, a crash, a failed router.Run) and main runs
\* again: the goroutines of the old process are gone with it, the tables
\* are what they were, the registry and the Engine with its context are new.
Restart ==
    /\ mode = "api"
    /\ orphans' = orphans \cup
           {e \in DOMAIN executions : executions[e].status \notin Terminal}
    /\ pc' = [e \in ExecIds |-> IF pc[e] \in RunnerPcs THEN "lost" ELSE pc[e]]
    /\ executions' = AutoMigrate(executions)
    /\ engineCtx' = NoCtx
    /\ ctxs' = [c \in DOMAIN ctxs |-> NewExecutionContext]
    /\ UNCHANGED <<mode, unit, env, workflows, taskLogs, nextExec, wf, wfid, idx,
                   execution, taskLog, result, executionError, clk, calls, sets,
                   logOps, statusHist, ret, prior, httpVars, unitVars>>

InitRestart ==
    /\ InitCommon
    /\ workflows = ProgressWorkflows
    /\ mode = "api"
    /\ env = [logFaults |-> FALSE, execFaults |-> TRUE]

NextRestart ==
    \/ Restart
    \/ \E param \in WorkflowParams : DeleteWorkflow(param)
    \/ \E param \in WorkflowParams : RunWorkflow(param)
    \/ \E param \in ExecutionParams : GetExecution(param)
    \/ \E e \in ExecIds : StartExecution(e)
    \/ \E e \in ExecIds : LookupMiss(e)
    \/ \E e \in ExecIds : ExecuteTask(e)
    \/ \E e \in ExecIds : PublishResult(e)
    \/ \E e \in ExecIds : FinishExecution(e)

SpecRestart == InitRestart /\ [][NextRestart]_vars

\* An execution that was `pending` or `running` when the process exited has
\* its record, is still not terminal, and no goroutine runs it.
OrphansStay ==
    \A e \in orphans :
        /\ e \in DOMAIN executions
        /\ executions[e].status \notin Terminal
        /\ pc[e] \notin RunnerPcs

\* No step changes the record of such an execution, invokes an executor for
\* it or writes a task log of it.
OrphanStep ==
    \A e \in orphans :
        /\ e \in DOMAIN executions'
        /\ executions'[e] = executions[e]
        /\ calls'[e] = calls[e]
        /\ TaskLogsOf(e)' = TaskLogsOf(e)

\* C27: an execution that is `pending` or `running` when the process exits
\* keeps its Execution record unchanged and non-terminal through every later
\* step of the restarted server, and none of its tasks is run afterwards.
NoRecoveryAfterExit == [](OrphansStay) /\ [][OrphanStep]_vars

NoRecoveryAfterExitWitness ==
    /\ 1 \in orphans /\ pc[1] = "lost"
    /\ executions[1].status = "running" /\ Len(calls[1]) = 1
    /\ 2 \notin orphans /\ engineCtx = 2
    /\ pc[2] = "done" /\ executions[2].status = "completed"

\* ---------------------------------------------------- executors under test
\* A value of a task's config map (map[string]interface{}): a string, a
\* number, or no entry under the key.  A string that is a template is kept
\* with the tokens the template lexer makes of it.
Absent == [t |-> "absent", v |-> "", toks |-> << >>]
Str(s) == [t |-> "string", v |-> s, toks |-> << >>]
Num(n) == [t |-> "number", v |-> ToString(n), toks |-> << >>]

\* The tokens of text/template's lexer: text outside actions, the
\* delimiters, a field (.name) and an identifier (name).
Text(s) == [k |-> "text", s |-> s]
Open == [k |-> "open", s |-> "{{"]
Close == [k |-> "close", s |-> "}}"]
Field(name) == [k |-> "field", s |-> name]
Ident(name) == [k |-> "ident", s |-> name]
Dot == [k |-> "dot", s |-> "."]

TokenText(tk) == IF tk.k = "field" THEN "." \o tk.s ELSE tk.s

RECURSIVE Concat(_)
Concat(strs) == IF strs = << >> THEN "" ELSE Head(strs) \o Concat(Tail(strs))

\* The string a token sequence is the lexing of.
Source(toks) == Concat([i \in 1..Len(toks) |-> TokenText(toks[i])])

Tmpl(toks) == [t |-> "string", v |-> Source(toks), toks |-> toks]

\* A config map with these values under method, url and body.
Config(method, url, body) ==
    LET all == [k \in {"method", "url", "body"} |->
                   CASE k = "method" -> method [] k = "url" -> url [] OTHER -> body]
    IN [k \in {key \in DOMAIN all : all[key].t # "absent"} |-> all[k]]

\* config[key].(string)
AsString(config, key) ==
    IF key \in DOMAIN config /\ config[key].t = "string"
    THEN [ok |-> TRUE, value |-> config[key]]
    ELSE [ok |-> FALSE, value |-> Str("")]

\* Go values a template is executed on: a map, a scalar printed as its
\* text, and the invalid value of a missing key or a nil interface.
NoValue == [kind |-> "novalue", s |-> "", m |-> << >>]
Scalar(x) == IF x = "nil" THEN NoValue ELSE [kind |-> "scalar", s |-> x, m |-> << >>]
MapValue(f) == [kind |-> "map", s |-> "", m |-> f]

\* A node of the parse tree: text, or a field chain (.a.b).
TextNode(s) == [k |-> "text", s |-> s, path |-> << >>]
FieldNode(path) == [k |-> "fields", s |-> "", path |-> path]

RECURSIVE FieldsFrom(_, _)
FieldsFrom(toks, i) ==
    IF i <= Len(toks) /\ toks[i].k = "field"
    THEN <<toks[i].s>> \o FieldsFrom(toks, i + 1)
    ELSE << >>

\* The action that starts after a {{ at i - 1: the dot or a field chain,
\* and }}.  An identifier is a call of a function that is not defined, an
\* action without operand has no value, an action that does not end is
\* unclosed.
ParseAction(toks, i) ==
    LET path == FieldsFrom(toks, i)
        j == i + Len(path)
    IN IF i + 1 <= Len(toks) /\ toks[i].k = "dot" /\ toks[i + 1].k = "close"
       THEN [ok |-> TRUE, node |-> FieldNode(<< >>), next |-> i + 2]
       ELSE IF path = << >> \/ j > Len(toks) \/ toks[j].k # "close"
       THEN [ok |-> FALSE, node |-> TextNode(""), next |-> 0]
       ELSE [ok |-> TRUE, node |-> FieldNode(path), next |-> j + 1]

RECURSIVE ParseFrom(_, _, _)
ParseFrom(toks, i, tree) ==
    IF i > Len(toks) THEN [ok |-> TRUE, tree |-> tree]
    ELSE IF toks[i].k = "open"
    THEN LET a == ParseAction(toks, i + 1)
         IN IF a.ok THEN ParseFrom(toks, a.next, Append(tree, a.node))
            ELSE [ok |-> FALSE, tree |-> << >>]
    ELSE ParseFrom(toks, i + 1, Append(tree, TextNode(TokenText(toks[i]))))

\* template.New("body").Parse(bodyTemplate)
TemplateParse(toks) == ParseFrom(toks, 1, << >>)

\* Evaluation of a field chain: a key a map lacks gives the invalid value,
\* a field of a scalar or of the invalid value is an error.
RECURSIVE EvalFields(_, _)
EvalFields(val, path) ==
    IF path = << >> THEN [ok |-> TRUE, val |-> val]
    ELSE IF val.kind = "map"
    THEN IF Head(path) \in DOMAIN val.m
         THEN EvalFields(val.m[Head(path)], Tail(path))
         ELSE EvalFields(NoValue, Tail(path))
    ELSE [ok |-> FALSE, val |-> NoValue]

\* What the template prints for a value (the bodies of this model print no
\* map of two keys, whose order fmt takes from the sorted keys).
RECURSIVE PrintValue(_), PrintEntries(_, _)
PrintValue(val) ==
    CASE val.kind = "scalar" -> val.s
      [] val.kind = "novalue" -> "<no value>"
      [] OTHER -> "map[" \o PrintEntries(val.m, DOMAIN val.m) \o "]"

PrintEntries(f, keys) ==
    IF keys = {} THEN ""
    ELSE LET k == CHOOSE x \in keys : TRUE
         IN k \o ":" \o PrintValue(f[k])
              \o (IF keys = {k} THEN "" ELSE " " \o PrintEntries(f, keys \ {k}))

\* tmpl.Execute(&buf, data): the pieces written, or an error.
RECURSIVE TemplateExecute(_, _)
TemplateExecute(tree, data) ==
    IF tree = << >> THEN [ok |-> TRUE, out |-> << >>]
    ELSE LET n == Head(tree)
             v == EvalFields(data, n.path)
             rest == TemplateExecute(Tail(tree), data)
         IN IF n.k = "text"
            THEN [ok |-> rest.ok, out |-> IF rest.ok THEN <<n.s>> \o rest.out ELSE << >>]
            ELSE IF v.ok /\ rest.ok
            THEN [ok |-> TRUE, out |-> <<PrintValue(v.val)>> \o rest.out]
            ELSE [ok |-> FALSE, out |-> << >>]

\* The data a body template is executed on: {"context": contextData}.
TemplateData(contextData) ==
    MapValue([k \in {"context"} |->
        MapValue([key \in DOMAIN contextData |-> Scalar(contextData[key])])])

\* An interpolation that sends the template as it is written.
interpolateBodyRaw(toks, contextData) ==
    [ok |-> TRUE, text |-> Source(toks), err |-> NoError]

\* HTTPTask.interpolateBody
interpolateBody(toks, contextData) ==
    LET p == TemplateParse(toks)
        x == TemplateExecute(p.tree, TemplateData(contextData))
    IN IF ~p.ok
       THEN [ok |-> FALSE, text |-> "", err |-> <<"failed to parse template: ">>]
       ELSE IF ~x.ok
       THEN [ok |-> FALSE, text |-> "", err |-> <<"failed to execute template: ">>]
       ELSE [ok |-> TRUE, text |-> Concat(x.out), err |-> NoError]

\* JSON text as the tokens of its lexer.  The numbers and strings of this
\* model's texts:
JsonNumbers == {"1", "2", "7"}
JsonStrings == {"\"a\"", "\"ok\"", "\"u1\"", "\"u2\""}

\* The Go string a JSON string token decodes to.
Unquote(tk) ==
    CASE tk = "\"a\"" -> "a" [] tk = "\"ok\"" -> "ok" [] tk = "\"u1\"" -> "u1"
      [] tk = "\"u2\"" -> "u2"

\* What json.Unmarshal stores in an interface{}: nil, bool, float64,
\* string, []interface{} or map[string]interface{}.
JsonScalar(kind, tk) == [kind |-> kind, s |-> tk, items |-> << >>, members |-> << >>]
JsonArray(items) == [kind |-> "array", s |-> "", items |-> items, members |-> << >>]
JsonObject(members) == [kind |-> "object", s |-> "", items |-> << >>, members |-> members]
JsonNil == JsonScalar("nil", "null")
JsonFail == [ok |-> FALSE, v |-> JsonNil, next |-> 0]

\* A string that was not decoded.
RawString(text) == JsonScalar("string", text)

RECURSIVE JsonValue(_, _), JsonElements(_, _, _), JsonMembers(_, _, _)
JsonValue(toks, i) ==
    IF i > Len(toks) THEN JsonFail
    ELSE LET tk == toks[i]
         IN CASE tk = "null" -> [ok |-> TRUE, v |-> JsonNil, next |-> i + 1]
              [] tk \in {"true", "false"} ->
                     [ok |-> TRUE, v |-> JsonScalar("bool", tk), next |-> i + 1]
              [] tk \in JsonNumbers ->
                     [ok |-> TRUE, v |-> JsonScalar("number", tk), next |-> i + 1]
              [] tk \in JsonStrings ->
                     [ok |-> TRUE, v |-> JsonScalar("string", Unquote(tk)), next |-> i + 1]
              [] tk = "[" ->
                     IF i + 1 <= Len(toks) /\ toks[i + 1] = "]"
                     THEN [ok |-> TRUE, v |-> JsonArray(<< >>), next |-> i + 2]
                     ELSE JsonElements(toks, i + 1, << >>)
              [] tk = "{" ->
                     IF i + 1 <= Len(toks) /\ toks[i + 1] = "}"
                     THEN [ok |-> TRUE, v |-> JsonObject(<< >>), next |-> i + 2]
                     ELSE JsonMembers(toks, i + 1, << >>)
              [] OTHER -> JsonFail

JsonElements(toks, i, acc) ==
    LET e == JsonValue(toks, i)
    IN IF ~e.ok \/ e.next > Len(toks) THEN JsonFail
       ELSE IF toks[e.next] = "," THEN JsonElements(toks, e.next + 1, Append(acc, e.v))
       ELSE IF toks[e.next] = "]"
       THEN [ok |-> TRUE, v |-> JsonArray(Append(acc, e.v)), next |-> e.next + 1]
       ELSE JsonFail

\* The members read so far are a map: a key that comes again replaces.
JsonMembers(toks, i, acc) ==
    IF i + 1 > Len(toks) \/ toks[i] \notin JsonStrings \/ toks[i + 1] # ":"
    THEN JsonFail
    ELSE LET e == JsonValue(toks, i + 2)
             key == Unquote(toks[i])
             more == [k \in DOMAIN acc \cup {key} |-> IF k = key THEN e.v ELSE acc[k]]
         IN IF ~e.ok \/ e.next > Len(toks) THEN JsonFail
            ELSE IF toks[e.next] = "," THEN JsonMembers(toks, e.next + 1, more)
            ELSE IF toks[e.next] = "}"
            THEN [ok |-> TRUE, v |-> JsonObject(more), next |-> e.next + 1]
            ELSE JsonFail

\* json.Unmarshal(text, &v) with v an interface{}: one value and nothing
\* after it.
JsonUnmarshal(toks) ==
    LET r == JsonValue(toks, 1)
    IN IF r.ok /\ r.next = Len(toks) + 1 THEN [ok |-> TRUE, v |-> r.v]
       ELSE [ok |-> FALSE, v |-> JsonNil]

\* TaskResult of an executor under test.
NilOutput == [kind |-> "nil"]
NoResult == [Status |-> "", Output |-> NilOutput, Error |-> NoError]
FailedResult(msg) == [Status |-> "failed", Output |-> NilOutput, Error |-> msg]
SuccessResult(output) == [Status |-> "success", Output |-> output, Error |-> NoError]

\* ------------------------------------------------------------ the HTTP task
\* strings.ToUpper, on the methods of this model.
ToUpper(s) ==
    CASE s = "get" -> "GET" [] s = "bad method" -> "BAD METHOD" [] OTHER -> s

\* http.NewRequest: the method must be a token, the url must parse.
NewRequest(method, url, body) ==
    IF method = "BAD METHOD" \/ url = "::bad"
    THEN [ok |-> FALSE, req |-> [method |-> "", url |-> "", body |-> "", contentType |-> ""]]
    ELSE [ok |-> TRUE,
          req |-> [method |-> method, url |-> url, body |-> body,
                   contentType |-> IF body # "" THEN "application/json" ELSE ""]]

\* The first two checks of HTTPTask.Execute.
ValidateHTTPConfig(config) ==
    LET method == AsString(config, "method")
        url == AsString(config, "url")
    IN IF ~method.ok \/ method.value.v = ""
       THEN [ok |-> FALSE, err |-> <<"missing or invalid 'method'", " in configuration">>]
       ELSE IF ~url.ok \/ url.value.v = ""
       THEN [ok |-> FALSE, err |-> <<"missing or invalid 'url'", " in configuration">>]
       ELSE [ok |-> TRUE, err |-> NoError]

\* strings.Contains(contentType, "application/json"), on the content types
\* of this model.
IsJsonType(contentType) ==
    contentType \in {"application/json", "application/json; charset=utf-8"}

\* The body of the output: the decoded JSON if the response says it is JSON
\* and it is, else the text.
ParseResponseBody(server) ==
    LET d == JsonUnmarshal(server.body)
    IN IF IsJsonType(server.ctype) /\ d.ok THEN d.v ELSE RawString(Concat(server.body))

\* A check that takes only the 5xx statuses for errors.
IsErrorStatusServerOnly(code) == code >= 500

\* resp.StatusCode >= 400
IsErrorStatus(code) == code >= 400

\* HTTPTask.Execute after client.Do returned a response.
HTTPResponseResult(server) ==
    IF ~server.readOk THEN FailedResult(<<"failed to read response: ">>)
    ELSE IF IsErrorStatus(server.status)
    THEN FailedResult(<<"HTTP ", ToString(server.status), ": ", Concat(server.body)>>)
    ELSE SuccessResult([kind |-> "map", status_code |-> server.status,
                        headers |-> [h \in {"Content-Type"} |-> server.ctype],
                        body |-> ParseResponseBody(server)])

\* The bodies of the test configurations.
BodyPlain == <<Text("{\"a\":1}")>>
BodyUser == <<Text("{\"u\":\""), Open, Field("context"), Field("user_id"), Close, Text("\"}")>>
BodyUnclosed == <<Text("{\"u\":\""), Open, Field("context"), Field("user_id")>>
BodyFunction == <<Open, Ident("context"), Field("user_id"), Close>>
BodyDeep == <<Open, Field("context"), Field("user_id"), Field("name"), Close>>
BodyTopLevel == <<Open, Field("user_id"), Close>>

HTTPMethods == {Absent, Str(""), Num(1), Str("get"), Str("POST"), Str("bad method")}
HTTPUrls == {Absent, Str(""), Num(1), Str("http://srv/items"), Str("::bad")}
HTTPBodies ==
    {Absent, Str(""), Num(7), Tmpl(BodyPlain), Tmpl(BodyUser), Tmpl(BodyUnclosed),
     Tmpl(BodyFunction), Tmpl(BodyDeep), Tmpl(BodyTopLevel)}

HTTPConfigs ==
    {Config(m, u, b) : m \in HTTPMethods, u \in HTTPUrls, b \in {Absent, Tmpl(BodyUser)}}
        \cup {Config(Str("POST"), Str("http://srv/items"), b) : b \in HTTPBodies}

\* The server of the test: it cannot be reached, or it answers with a
\* status, a content type and a body, which may break off while it is read.
Statuses == {200, 399, 400, 404, 500}
ResponseBodies == {<<"{", "\"ok\"", ":", "true", "}">>, <<"oops">>, << >>}
Servers ==
    {[up |-> FALSE, status |-> 0, ctype |-> "", body |-> << >>, readOk |-> TRUE]}
        \cup {[up |-> TRUE, status |-> c, ctype |-> t, body |-> b, readOk |-> r] :
                 c \in Statuses, t \in {"application/json; charset=utf-8", "text/plain"},
                 b \in ResponseBodies, r \in BOOLEAN}

UserIds == {"u1", "u2"}

\* The test calls task.Execute(ctx, config).
HTTPCall(config, server) ==
    /\ mode = "httptest"
    /\ unit.pc = "off"
    /\ unit' = [pc |-> "validate", config |-> config, server |-> server,
                contextData |-> EmptyMap, bodyStr |-> "", result |-> NoResult,
                received |-> << >>]
    /\ UNCHANGED <<mode, env, storeVars, engineVars, localVars, histVars, httpVars,
                   unitVars>>

\* Another goroutine of the test sets user_id in the context.
TestSet(value) ==
    /\ mode = "httptest"
    /\ CtxGet(ctxs[TestCtx], "user_id").value # value
    /\ ctxs' = [ctxs EXCEPT ![TestCtx] = CtxSet(@, "user_id", value)]
    /\ UNCHANGED <<mode, env, storeVars, engineCtx, localVars, histVars, httpVars,
                   unitVars, execVars>>

\* Execute, the checks of method and url.
HTTPValidate ==
    /\ mode = "httptest"
    /\ unit.pc = "validate"
    /\ LET v == ValidateHTTPConfig(unit.config)
       IN unit' = IF v.ok THEN [unit EXCEPT !.pc = "body"]
                  ELSE [unit EXCEPT !.pc = "ret", !.result = FailedResult(v.err)]
    /\ UNCHANGED <<mode, env, storeVars, engineVars, localVars, histVars, httpVars,
                   unitVars>>

\* Execute, the body: a non-empty string body is interpolated with
\* ctx.GetAll() as it is now.
HTTPBody ==
    /\ mode = "httptest"
    /\ unit.pc = "body"
    /\ LET b == AsString(unit.config, "body")
           contextData == CtxGetAll(ctxs[TestCtx])
           i == interpolateBody(b.value.toks, contextData)
       IN IF ~b.ok \/ b.value.v = ""
          THEN unit' = [unit EXCEPT !.pc = "send"]
          ELSE IF ~i.ok
          THEN unit' = [unit EXCEPT !.pc = "ret", !.contextData = contextData,
                            !.result = FailedResult(<<"body interpolation failed", ": ">> \o i.err)]
          ELSE unit' = [unit EXCEPT !.pc = "send", !.contextData = contextData,
                            !.bodyStr = i.text]
    /\ UNCHANGED <<mode, env, storeVars, engineVars, localVars, histVars, httpVars,
                   unitVars>>

\* Execute, the request: NewRequest, client.Do, io.ReadAll, the result.
HTTPSend ==
    /\ mode = "httptest"
    /\ unit.pc = "send"
    /\ LET n == NewRequest(ToUpper(unit.config["method"].v), unit.config["url"].v,
                           unit.bodyStr)
       IN IF ~n.ok
          THEN unit' = [unit EXCEPT !.pc = "ret",
                            !.result = FailedResult(<<"failed to create request: ">>)]
          ELSE IF ~unit.server.up
          THEN unit' = [unit EXCEPT !.pc = "ret",
                            !.result = FailedResult(<<"request execution failed: ">>)]
          ELSE unit' = [unit EXCEPT !.pc = "ret",
                            !.received = Append(@, n.req),
                            !.result = HTTPResponseResult(unit.server)]
    /\ UNCHANGED <<mode, env, storeVars, engineVars, localVars, histVars, httpVars,
                   unitVars>>

InitHttp ==
    /\ InitCommon
    /\ workflows = EmptyStore
    /\ mode = "httptest"
    /\ env = [logFaults |-> FALSE, execFaults |-> FALSE]

NextHttp ==
    \/ \E config \in HTTPConfigs, server \in Servers : HTTPCall(config, server)
    \/ \E value \in UserIds : TestSet(value)
    \/ HTTPValidate
    \/ HTTPBody
    \/ HTTPSend

SpecHttp == InitHttp /\ [][NextHttp]_vars

\* The Execute call returned.
Returned == unit.pc = "ret"

\* A request reached the server and its response was read to the end.
Completed == Returned /\ unit.received # << >> /\ unit.server.readOk

\* The config lacks a usable string under the key.
Unusable(key) ==
    \/ key \notin DOMAIN unit.config
    \/ unit.config[key].t # "string"
    \/ unit.config[key].v = ""

\* C28: Execute fails with "missing or invalid 'method'" when method is
\* absent, empty or not a string, else with "missing or invalid 'url'" when
\* url is absent, empty or not a string; when the request completed the
\* result is failed with an error that starts "HTTP <code>" exactly when the
\* status is 400 or more and otherwise success with an output of
\* status_code, headers and body; a failed result has no output.
HTTPOutcome ==
    Returned =>
        LET r == unit.result
        IN /\ Unusable("method") =>
                  /\ r.Status = "failed"
                  /\ Head(r.Error) = "missing or invalid 'method'"
           /\ (~Unusable("method") /\ Unusable("url")) =>
                  /\ r.Status = "failed"
                  /\ Head(r.Error) = "missing or invalid 'url'"
           /\ Completed =>
                  /\ (unit.server.status >= 400) <=>
                         /\ r.Status = "failed"
                         /\ SubSeq(r.Error, 1, 2) = <<"HTTP ", ToString(unit.server.status)>>
                  /\ (unit.server.status < 400) =>
                         /\ r.Status = "success"
                         /\ DOMAIN r.Output = {"kind", "status_code", "headers", "body"}
                         /\ r.Output.status_code = unit.server.status
                         /\ r.Output.headers["Content-Type"] = unit.server.ctype
           /\ r.Status \in {"success", "failed"}
           /\ r.Status = "failed" => (r.Output = NilOutput /\ r.Error # NoError)
           /\ (r.Error # NoError /\ Head(r.Error) = "HTTP ") => Completed

HTTPOutcomeWitness ==
    /\ Completed
    /\ unit.server.status = 400
    /\ unit.result.Status = "failed"
    /\ unit.result.Error = <<"HTTP ", "400", ": ", "oops">>
    /\ unit.config["method"].v = "get"
    /\ unit.received[1].method = "GET"

\* The config has a non-empty string body, and method and url pass.
BodyGiven == ~Unusable("body") /\ ~Unusable("method") /\ ~Unusable("url")

\* The server got a request.
Sent == unit.received # << >>

\* What {{.context.user_id}} stands for in the snapshot Execute took.
UserIdText ==
    IF "user_id" \in DOMAIN unit.contextData THEN unit.contextData["user_id"]
    ELSE "<no value>"

\* The bodies whose template does not parse or does not execute: an action
\* that is not closed, a call of a function that is not defined, a field of
\* a string or of a missing value.
FailingBodies ==
    {"{\"u\":\"{{.context.user_id", "{{context.user_id}}", "{{.context.user_id.name}}"}

\* What the server received for each body, and that a failing template
\* sends nothing.
BodyRendered ==
    (Returned /\ BodyGiven) =>
        LET src == unit.config["body"].v
        IN /\ Sent => unit.received[1].body = unit.bodyStr
           /\ (Sent /\ src = "{\"a\":1}") => unit.received[1].body = src
           /\ (Sent /\ src = "{\"u\":\"{{.context.user_id}}\"}") =>
                  unit.received[1].body = "{\"u\":\"" \o UserIdText \o "\"}"
           /\ (Sent /\ src = "{\"u\":\"{{.context.user_id}}\"}"
                    /\ unit.contextData = [user_id |-> "u1"]) =>
                  unit.received[1].body = "{\"u\":\"u1\"}"
           /\ (Sent /\ src = "{{.user_id}}") => unit.received[1].body = "<no value>"
           /\ src \in FailingBodies =>
                  /\ unit.result.Status = "failed"
                  /\ Head(unit.result.Error) = "body interpolation failed"
                  /\ ~Sent
           /\ src \notin FailingBodies =>
                  ~Contains(unit.result.Error, "body interpolation failed")

\* The snapshot is the context as it is when the body is interpolated.
SnapshotAtInterpolation ==
    (unit.pc = "body" /\ unit'.pc # "body" /\ BodyGiven) =>
        unit'.contextData = CtxGetAll(ctxs[TestCtx])

TransformConfig(template, dataSource, outputFormat) ==
    LET all == [k \in {"template", "data_source", "output_format"} |->
                   CASE k = "template" -> template
                     [] k = "data_source" -> dataSource
                     [] OTHER -> outputFormat]
    IN [k \in {key \in DOMAIN all : all[key].t # "absent"} |-> all[k]]

\* An input that is the whole context whatever data_source says.
InputDataWholeContext(m, config) ==
    MapValue([key \in DOMAIN CtxGetAll(m) |-> Scalar(m[key])])

\* inputData: the value under data_source (an empty map if the context has
\* no such key), or the whole context.
InputData(m, config) ==
    LET dataSource == AsString(config, "data_source")
        data == CtxGet(m, dataSource.value.v)
    IN IF dataSource.ok /\ dataSource.value.v # ""
       THEN IF data.exists THEN Scalar(data.value) ELSE MapValue(<< >>)
       ELSE MapValue([key \in DOMAIN CtxGetAll(m) |-> Scalar(m[key])])

\* outputFormat: "json" unless the config has a string under output_format.
OutputFormat(config) ==
    LET format == AsString(config, "output_format")
    IN IF format.ok THEN format.value.v ELSE "json"

\* A formatter that fails when the json format is asked for and the
\* rendered text is not JSON.
FormatOutputStrict(outputFormat, pieces) ==
    LET d == JsonUnmarshal(pieces)
    IN IF outputFormat = "json"
       THEN IF d.ok THEN SuccessResult(d.v)
            ELSE FailedResult(<<"output is not valid JSON">>)
       ELSE SuccessResult(RawString(Concat(pieces)))

\* "Format output" and the last return of TransformTask.Execute.
FormatOutput(outputFormat, pieces) ==
    LET d == JsonUnmarshal(pieces)
    IN IF outputFormat = "json" /\ d.ok THEN SuccessResult(d.v)
       ELSE SuccessResult(RawString(Concat(pieces)))

\* TransformTask.Execute: what it renders and what it returns.  The
\* templates of this model call no function of the funcMap.
TransformResult(m, config) ==
    LET template == AsString(config, "template")
        p == TemplateParse(template.value.toks)
        inputData == InputData(m, config)
        x == TemplateExecute(p.tree, inputData)
    IN IF ~template.ok \/ template.value.v = ""
       THEN [rendered |-> << >>, inputData |-> NoValue,
             result |-> FailedResult(<<"missing or invalid 'template'", " in configuration">>)]
       ELSE IF ~p.ok
       THEN [rendered |-> << >>, inputData |-> inputData,
             result |-> FailedResult(<<"failed to parse template: ">>)]
       ELSE IF ~x.ok
       THEN [rendered |-> << >>, inputData |-> inputData,
             result |-> FailedResult(<<"failed to execute template: ">>)]
       ELSE [rendered |-> x.out, inputData |-> inputData,
             result |-> FormatOutput(OutputFormat(config), x.out)]

\* The templates of the test configurations: their text outside actions is
\* written token by token.
TplNumber == <<Open, Field("n"), Close>>
TplArray == <<Text("["), Open, Field("n"), Close, Text(","), Text("2"), Text("]")>>
TplObject == <<Text("{"), Text("\"a\""), Text(":"), Open, Field("n"), Close, Text("}")>>
TplNull == <<Text("null")>>
TplWords == <<Text("n is "), Open, Field("n"), Close>>
TplBroken == <<Text("["), Open, Field("n")>>
TplDeep == <<Open, Field("n"), Field("unit"), Close>>
TplDot == <<Open, Dot, Close>>

Templates ==
    {Absent, Str(""), Num(1), Tmpl(TplNumber), Tmpl(TplArray), Tmpl(TplObject),
     Tmpl(TplNull), Tmpl(TplWords), Tmpl(TplBroken), Tmpl(TplDeep), Tmpl(TplDot)}
DataSources == {Absent, Str(""), Str("n"), Str("other")}
OutputFormats == {Absent, Str("json"), Str("string"), Str(""), Str("JSON"), Num(1)}
TransformConfigs ==
    {TransformConfig(t, d, f) : t \in Templates, d \in DataSources, f \in OutputFormats}

InputValues == {"1", "7", "\"u1\"", "oops"}

\* The test fills the context: ctx.Set("n", value).
TransformSet(value) ==
    /\ mode = "transformtest"
    /\ unit.pc = "off"
    /\ ctxs[TestCtx] = EmptyMap
    /\ ctxs' = [ctxs EXCEPT ![TestCtx] = CtxSet(@, "n", value)]
    /\ UNCHANGED <<mode, env, storeVars, engineCtx, localVars, histVars, httpVars,
                   unitVars, execVars>>

\* The test calls task.Execute(ctx, config).
TransformCall(config) ==
    /\ mode = "transformtest"
    /\ unit.pc = "off"
    /\ unit' = [pc |-> "execute", config |-> config, inputData |-> NoValue,
                rendered |-> << >>, result |-> NoResult]
    /\ UNCHANGED <<mode, env, storeVars, engineVars, localVars, histVars, httpVars,
                   unitVars>>

\* TransformTask.Execute
TransformExecute ==
    /\ mode = "transformtest"
    /\ unit.pc = "execute"
    /\ LET r == TransformResult(ctxs[TestCtx], unit.config)
       IN unit' = [unit EXCEPT !.pc = "ret", !.inputData = r.inputData,
                               !.rendered = r.rendered, !.result = r.result]
    /\ UNCHANGED <<mode, env, storeVars, engineVars, localVars, histVars, httpVars,
                   unitVars>>

InitTransform ==
    /\ InitCommon
    /\ workflows = EmptyStore
    /\ mode = "transformtest"
    /\ env = [logFaults |-> FALSE, execFaults |-> FALSE]

NextTransform ==
    \/ \E value \in InputValues : TransformSet(value)
    \/ \E config \in TransformConfigs : TransformCall(config)
    \/ TransformExecute

SpecTransform == InitTransform /\ [][NextTransform]_vars

\* The template was rendered: it is one of those that parse, and the value
\* it prints exists or is missing but is not asked for a field.
Rendered ==
    /\ Returned
    /\ ~Unusable("template")
    /\ unit.config["template"].v \notin {"[{{.n", "{{.n.unit}}"}
    /\ ("data_source" \in DOMAIN unit.config /\ unit.config["data_source"].v = "n")
           => (unit.config["template"].v = "null" \/ ctxs[TestCtx] = EmptyMap)

\* The call asks for the json format: output_format is "json" or absent.
AsksJson ==
    \/ "output_format" \notin DOMAIN unit.config
    \/ unit.config["output_format"] = Str("json")

\* The call asks for the string format.
AsksString ==
    /\ "output_format" \in DOMAIN unit.config
    /\ unit.config["output_format"] = Str("string")

\* The whole context is the input and holds this under n.
InputN(value) ==
    /\ ("data_source" \in DOMAIN unit.config => unit.config["data_source"].v = "")
    /\ ctxs[TestCtx] = [n |-> value]

Template(text) == unit.config["template"].v = text

\* C30: a rendered template gives success; with output_format json or
\* absent the output is the decoded value when the rendered text is JSON and
\* the rendered text itself when it is not; with output_format string the
\* output is the rendered text.
TransformJsonFallback ==
    Rendered =>
        LET out == unit.result.Output
            text == Concat(unit.rendered)
        IN /\ unit.result.Status = "success"
           /\ unit.result.Error = NoError
           /\ AsksString => out = RawString(text)
           /\ AsksJson => (out = RawString(text) <=> ~JsonUnmarshal(unit.rendered).ok)
           /\ (AsksJson /\ Template("{{.n}}") /\ InputN("7")) =>
                  out = JsonScalar("number", "7")
           /\ (AsksString /\ Template("{{.n}}") /\ InputN("7")) => out = RawString("7")
           /\ (AsksJson /\ Template("{{.n}}") /\ InputN("oops")) => out = RawString("oops")
           /\ (AsksJson /\ Template("[{{.n}},2]") /\ InputN("1")) =>
                  out = JsonArray(<<JsonScalar("number", "1"), JsonScalar("number", "2")>>)
           /\ (AsksString /\ Template("[{{.n}},2]") /\ InputN("1")) => out = RawString("[1,2]")
           /\ (AsksJson /\ Template("[{{.n}},2]") /\ InputN("oops")) =>
                  out = RawString("[oops,2]")
           /\ (AsksJson /\ Template("[{{.n}},2]") /\ ctxs[TestCtx] = EmptyMap) =>
                  out = RawString("[<no value>,2]")
           /\ (AsksJson /\ Template("{\"a\":{{.n}}}") /\ InputN("\"u1\"")) =>
                  out = JsonObject([k \in {"a"} |-> JsonScalar("string", "u1")])
           /\ (AsksJson /\ Template("null")) => out = JsonNil
           /\ (AsksString /\ Template("null")) => out = RawString("null")
           /\ (AsksJson /\ Template("n is {{.n}}") /\ InputN("1")) => out = RawString("n is 1")

TransformJsonFallbackWitness ==
    /\ Rendered /\ AsksJson
    /\ Template("[{{.n}},2]") /\ InputN("oops")
    /\ unit.result = SuccessResult(RawString("[oops,2]"))

\* The config names a data source: a non-empty string under data_source.
NamesSource(key) ==
    /\ "data_source" \in DOMAIN unit.config
    /\ unit.config["data_source"] = Str(key)

\* The config names none: no data_source, an empty one or one that is no
\* string.
NamesNoSource ==
    \/ "data_source" \notin DOMAIN unit.config
    \/ unit.config["data_source"].t # "string"
    \/ unit.config["data_source"].v = ""

\* The root of the template for each shape of data_source, and what the
\* dot and a field of the root print.
TransformRoot ==
    (Returned /\ mode = "transformtest" /\ ~Unusable("template")) =>
        LET ctx == ctxs[TestCtx]
            root == unit.inputData
            out == unit.result.Output
        IN /\ (NamesSource("n") /\ "n" \in DOMAIN ctx) =>
                  /\ root = Scalar(ctx["n"])
                  /\ (Template("{{.}}") /\ AsksString) => out = RawString(ctx["n"])
           /\ (NamesSource("n") /\ "n" \notin DOMAIN ctx) =>
                  /\ root = MapValue(<< >>)
                  /\ (Template("{{.}}") /\ AsksString) => out = RawString("map[]")
                  /\ (Template("{{.n}}") /\ AsksString) => out = RawString("<no value>")
                  /\ unit.config["template"].v \notin {"[{{.n", "{{.n.unit}}"} =>
                         unit.result.Status = "success"
           /\ NamesSource("other") =>
                  /\ root = MapValue(<< >>)
                  /\ unit.config["template"].v \notin {"[{{.n", "{{.n.unit}}"} =>
                         unit.result.Status = "success"
           /\ NamesNoSource =>
                  /\ root.kind = "map"
                  /\ DOMAIN root.m = DOMAIN ctx
                  /\ \A key \in DOMAIN ctx : root.m[key] = Scalar(ctx[key])
                  /\ (Template("{{.n}}") /\ AsksString /\ "n" \in DOMAIN ctx) =>
                         out = RawString(ctx["n"])

\* Execute leaves the context as it is.
TransformReadsOnly ==
    (mode = "transformtest" /\ unit.pc = "execute" /\ unit'.pc = "ret") => ctxs' = ctxs

\* C31: when data_source names a key of the context the root of the
\* template is the value under that key; when it names a key the context
\* lacks the root is an empty map and the task does not fail for that; when
\* data_source is absent or empty the root is the whole context; Execute
\* writes nothing into the context.
TransformDataSource == [](TransformRoot) /\ [][TransformReadsOnly]_vars

TransformDataSourceWitness ==
    /\ Returned /\ mode = "transformtest"
    /\ NamesSource("n") /\ AsksJson /\ ~Unusable("template") /\ Template("{{.}}")
    /\ ctxs[TestCtx] = [n |-> "7"]
    /\ unit.inputData = Scalar("7")
    /\ unit.result = SuccessResult(JsonScalar("number", "7"))

\* ---------------------------------------------------------------------
\* HTMLParserTask (internal/tasks/http_task_test.go:393-590), called by a
\* test as task.Execute(ctx, config).  An HTML text is written as the
\* document its permissive parse gives: the sequence, in document order,
\* of its elements, each with a class, attributes and the text inside it.
\* ---------------------------------------------------------------------

Bool(b) == [t |-> "bool", v |-> IF b THEN "true" ELSE "false", toks |-> << >>]

El(class, text, attrs) == [class |-> class, text |-> text, attrs |-> attrs]
NoAttrs == [a \in {} |-> ""]
Href(value) == [a \in {"href"} |-> value]

\* Values the test puts in the context: a string (an HTML text), a number,
\* and a map.
HtmlString(doc) == [kind |-> "string", doc |-> doc, m |-> << >>]
HtmlNumber == [kind |-> "number", doc |-> << >>, m |-> << >>]
HtmlMap(f) == [kind |-> "map", doc |-> << >>, m |-> f]

\* strings.TrimSpace on the texts and attribute values of the documents.
TrimSpace(s) ==
    CASE s = " B " -> "B"
      [] s = " /y " -> "/y"
      [] s = " " -> ""
      [] OTHER -> s

\* doc.Find(selector) for a class selector: the elements of that class, in
\* document order.
RECURSIVE Find(_, _)
Find(doc, selector) ==
    IF doc = << >> THEN << >>
    ELSE IF selector = "." \o Head(doc).class
         THEN <<Head(doc)>> \o Find(Tail(doc), selector)
         ELSE Find(Tail(doc), selector)

\* Selection.Attr and Selection.Text on a selection; on the empty selection
\* (s = << >>) there is no attribute and the text is empty.
Attr(s, attribute) ==
    IF s # << >> /\ attribute \in DOMAIN s[1].attrs
    THEN [value |-> s[1].attrs[attribute], exists |-> TRUE]
    ELSE [value |-> "", exists |-> FALSE]

SelectionText(s) == IF s = << >> THEN "" ELSE s[1].text

\* A reading of extractValue that does not trim.
extractValueRaw(s, attribute) ==
    IF attribute # ""
    THEN Attr(s, attribute).value
    ELSE SelectionText(s)

\* HTMLParserTask.extractValue
extractValue(s, attribute) ==
    IF attribute # ""
    THEN IF ~Attr(s, attribute).exists THEN ""
         ELSE TrimSpace(Attr(s, attribute).value)
    ELSE TrimSpace(SelectionText(s))

\* selection.Each of extractData: the non-empty values, in order.
RECURSIVE EachValue(_, _)
EachValue(selection, attribute) ==
    IF selection = << >> THEN << >>
    ELSE LET value == extractValue(<<Head(selection)>>, attribute)
         IN (IF value # "" THEN <<value>> ELSE << >>)
                \o EachValue(Tail(selection), attribute)

\* What resultMap holds under a name: a []string or a string.
StringList(values) == [kind |-> "list", s |-> "", items |-> values]
OneString(value) == [kind |-> "string", s |-> value, items |-> << >>]

\* selection.First()
First(selection) == IF selection = << >> THEN << >> ELSE <<Head(selection)>>

\* HTMLParserTask.extractData, the loop over the selectors from resultMap.
RECURSIVE ExtractInto(_, _, _)
ExtractInto(resultMap, doc, selectors) ==
    IF selectors = << >> THEN resultMap
    ELSE LET sel == Head(selectors)
             selection == Find(doc, sel.Selector)
             entry == IF sel.Multiple
                      THEN StringList(EachValue(selection, sel.Attribute))
                      ELSE OneString(extractValue(First(selection), sel.Attribute))
         IN ExtractInto([k \in DOMAIN resultMap \cup {sel.Name} |->
                            IF k = sel.Name THEN entry ELSE resultMap[k]],
                        doc, Tail(selectors))

extractData(doc, selectors) == <<ExtractInto([k \in {} |-> OneString("")], doc, selectors)>>

\* HTMLParserTask.parseSelectors: the SelectorConfig structs, or the error
\* of the first entry that is not usable.
RECURSIVE parseSelectors(_)
parseSelectors(selectorsConfig) ==
    IF selectorsConfig = << >> THEN [ok |-> TRUE, selectors |-> << >>, err |-> << >>]
    ELSE LET sel == Head(selectorsConfig)
             name == AsString(sel, "name")
             selector == AsString(sel, "selector")
             attribute == AsString(sel, "attribute")
             multiple == "multiple" \in DOMAIN sel /\ sel["multiple"] = Bool(TRUE)
             rest == parseSelectors(Tail(selectorsConfig))
         IN IF "t" \in DOMAIN sel
            THEN [ok |-> FALSE, selectors |-> << >>, err |-> <<"selector at index", " is not a map">>]
            ELSE IF ~name.ok \/ name.value.v = ""
            THEN [ok |-> FALSE, selectors |-> << >>, err |-> <<"selector at index", " missing 'name'">>]
            ELSE IF ~selector.ok \/ selector.value.v = ""
            THEN [ok |-> FALSE, selectors |-> << >>, err |-> <<"selector at index", " missing 'selector'">>]
            ELSE IF ~rest.ok THEN rest
            ELSE [ok |-> TRUE, err |-> << >>,
                  selectors |-> <<[Name |-> name.value.v, Selector |-> selector.value.v,
                                   Attribute |-> attribute.value.v,
                                   Multiple |-> multiple]>> \o rest.selectors]

\* A resolution of the HTML content that takes strings only.
HtmlContentStringOnly(htmlData) ==
    IF htmlData.kind = "string" THEN [ok |-> TRUE, doc |-> htmlData.doc]
    ELSE [ok |-> FALSE, doc |-> << >>]

\* Execute, "Handle both direct string and HTTP response structure".
HtmlContent(htmlData) ==
    IF htmlData.kind = "string" THEN [ok |-> TRUE, doc |-> htmlData.doc]
    ELSE IF htmlData.kind = "map"
    THEN IF "body" \in DOMAIN htmlData.m
         THEN IF htmlData.m["body"].kind = "string"
              THEN [ok |-> TRUE, doc |-> htmlData.m["body"].doc]
              ELSE [ok |-> FALSE, doc |-> << >>]
         ELSE [ok |-> FALSE, doc |-> << >>]
    ELSE [ok |-> FALSE, doc |-> << >>]

\* HTMLParserTask.Execute.  goquery.NewDocumentFromReader reads from a
\* strings.Reader with a parser that accepts every text, so its error
\* branch is not taken.
HTMLResult(m, config) ==
    LET htmlSource == AsString(config, "html_source")
        selectorsConfig == config["selectors"]
        htmlData == CtxGet(m, htmlSource.value.v)
        content == HtmlContent(htmlData.value)
        parsed == parseSelectors(selectorsConfig.items)
    IN IF ~htmlSource.ok \/ htmlSource.value.v = ""
       THEN FailedResult(<<"missing or invalid 'html_source'", " in configuration">>)
       ELSE IF selectorsConfig.t # "list" \/ Len(selectorsConfig.items) = 0
       THEN FailedResult(<<"missing or invalid 'selectors'", " in configuration">>)
       ELSE IF ~htmlData.exists
       THEN FailedResult(<<"HTML source '", htmlSource.value.v, "' not found in context">>)
       ELSE IF ~content.ok
       THEN FailedResult(<<"HTML content is not a string">>)
       ELSE IF ~parsed.ok
       THEN FailedResult(<<"invalid selector configuration: ">> \o parsed.err)
       ELSE SuccessResult(extractData(content.doc, parsed.selectors))

\* The selector entries, documents and context values of the tests.
Sel(name, selector, attribute, multiple) ==
    [name |-> name, selector |-> selector, attribute |-> attribute, multiple |-> multiple]

SelTexts == Sel(Str("x"), Str(".a"), Absent, Bool(TRUE))
SelLinks == Sel(Str("y"), Str(".a"), Str("href"), Bool(TRUE))
SelFirst == Sel(Str("z"), Str(".b"), Absent, Absent)
SelNone == Sel(Str("x"), Str(".none"), Str(""), Bool(TRUE))
SelAgain == Sel(Str("x"), Str(".b"), Absent, Bool(FALSE))
SelNoName == Sel(Absent, Str(".a"), Absent, Bool(TRUE))
SelNoSelector == Sel(Str("x"), Str(""), Absent, Bool(TRUE))

SelectorLists ==
    {<< >>, <<SelTexts>>, <<SelLinks>>, <<SelTexts, SelLinks>>, <<SelFirst, SelTexts>>,
     <<SelNone>>, <<SelTexts, SelAgain>>, <<SelAgain, SelLinks>>, <<SelNoName>>,
     <<SelTexts, SelNoSelector>>, <<Str("x")>>}

SelectorsValues ==
    {[t |-> "absent", items |-> << >>], [t |-> "string", items |-> << >>]}
        \cup {[t |-> "list", items |-> l] : l \in SelectorLists}

HtmlSources == {Absent, Str(""), Num(1), Str("page"), Str("other")}

HTMLConfigs ==
    {[html_source |-> h, selectors |-> s] : h \in HtmlSources, s \in SelectorsValues}

DocClean == <<El("a", "A", NoAttrs), El("b", "C", Href("/x")), El("a", " B ", Href(" /y "))>>
DocGaps ==
    <<El("a", " ", Href("/x")), El("a", "A", NoAttrs), El("b", "", NoAttrs),
      El("a", "", Href("")), El("a", " B ", Href(" /y "))>>
DocNothing == << >>
Documents == {DocClean, DocGaps, DocNothing}

HtmlValues ==
    {HtmlString(d) : d \in Documents} \cup {HtmlNumber}
        \cup {HtmlMap([k \in {"body"} |-> HtmlString(d)]) : d \in Documents}
        \cup {HtmlMap([k \in {"body"} |-> HtmlNumber]),
              HtmlMap([k \in {"status_code"} |-> HtmlNumber])}

\* The test fills the context: ctx.Set("page", value).
HtmlSet(value) ==
    /\ mode = "htmltest"
    /\ unit.pc = "off"
    /\ ctxs[TestCtx] = EmptyMap
    /\ ctxs' = [ctxs EXCEPT ![TestCtx] = CtxSet(@, "page", value)]
    /\ UNCHANGED <<mode, env, storeVars, engineCtx, localVars, histVars, httpVars,
                   unitVars, execVars>>

\* The test calls task.Execute(ctx, config).
HtmlCall(config) ==
    /\ mode = "htmltest"
    /\ unit.pc = "off"
    /\ unit' = [pc |-> "execute", config |-> config, result |-> NoResult]
    /\ UNCHANGED <<mode, env, storeVars, engineVars, localVars, histVars, httpVars,
                   unitVars>>

\* HTMLParserTask.Execute
HtmlExecute ==
    /\ mode = "htmltest"
    /\ unit.pc = "execute"
    /\ unit' = [unit EXCEPT !.pc = "ret",
                            !.result = HTMLResult(ctxs[TestCtx], unit.config)]
    /\ UNCHANGED <<mode, env, storeVars, engineVars, localVars, histVars, httpVars,
                   unitVars>>

InitHtml ==
    /\ InitCommon
    /\ workflows = EmptyStore
    /\ mode = "htmltest"
    /\ env = [logFaults |-> FALSE, execFaults |-> FALSE]

NextHtml ==
    \/ \E value \in HtmlValues : HtmlSet(value)
    \/ \E config \in HTMLConfigs : HtmlCall(config)
    \/ HtmlExecute

SpecHtml == InitHtml /\ [][NextHtml]_vars

\* The HTML text the extractor was given: the string under html_source, or
\* the body of the map under it.
GivenDoc ==
    LET value == ctxs[TestCtx][unit.config.html_source.v]
    IN IF value.kind = "string" THEN value.doc ELSE value.m["body"].doc

\* The entries of the configuration that ask for every match and whose name
\* no later entry uses.
MultipleEntries ==
    LET items == unit.config.selectors.items
    IN {i \in 1..Len(items) :
           /\ items[i].multiple = Bool(TRUE)
           /\ \A j \in (i + 1)..Len(items) : items[j].name # items[i].name}

\* The matches of entry i in document order, and the trimmed text or
\* trimmed attribute value of a match ("" for a match without the attribute).
MatchesOf(i) ==
    LET s == unit.config.selectors.items[i].selector.v
    IN SelectSeq(GivenDoc, LAMBDA el : "." \o el.class = s)

MatchValue(i, el) ==
    LET attribute == unit.config.selectors.items[i].attribute
    IN IF attribute.t = "string" /\ attribute.v # ""
       THEN IF attribute.v \in DOMAIN el.attrs THEN TrimSpace(el.attrs[attribute.v]) ELSE ""
       ELSE TrimSpace(el.text)

\* The positions of the matches of entry i whose value is not empty, and
\* the j-th of them.
Filled(i) == {k \in 1..Len(MatchesOf(i)) : MatchValue(i, MatchesOf(i)[k]) # ""}
FilledAt(i, j) == CHOOSE k \in Filled(i) : Cardinality({l \in Filled(i) : l < k}) = j - 1

Extracted == Returned /\ mode = "htmltest" /\ unit.result.Status = "success"

ListAt(i) == unit.result.Output[1][unit.config.selectors.items[i].name.v]

\* C32 as stated: HTML selector multiplicity.  For a selector entry with
\* multiple true whose selector matches n elements, the output is a list of
\* length 1 whose mapping has at the entry's name a list of length n whose
\* i-th element is the trimmed text (or trimmed attribute value) of the
\* i-th match in document order.
SelectorMultiplicity ==
    Extracted =>
        /\ Len(unit.result.Output) = 1
        /\ \A i \in MultipleEntries :
              /\ ListAt(i).kind = "list"
              /\ Len(ListAt(i).items) = Len(MatchesOf(i))
              /\ \A k \in 1..Len(MatchesOf(i)) :
                    ListAt(i).items[k] = MatchValue(i, MatchesOf(i)[k])

\* C32 amended: the list holds, in document order, the trimmed text (or
\* trimmed attribute value) of the matches for which it is not empty; it
\* has length n exactly when no match has an empty value.
SelectorMultiplicityFiltered ==
    Extracted =>
        /\ Len(unit.result.Output) = 1
        /\ \A i \in MultipleEntries :
              /\ ListAt(i).kind = "list"
              /\ Len(ListAt(i).items) = Cardinality(Filled(i))
              /\ \A j \in 1..Len(ListAt(i).items) :
                    ListAt(i).items[j] = MatchValue(i, MatchesOf(i)[FilledAt(i, j)])

\* A document with five elements, four of class a, two of them with an
\* empty trimmed text: the list under x has the two others.
SelectorMultiplicityWitness ==
    /\ Extracted
    /\ ctxs[TestCtx] = [page |-> HtmlString(DocGaps)]
    /\ unit.config.selectors.items = <<SelTexts, SelLinks>>
    /\ unit.result.Output[1]["x"].items = <<"A", "B">>
    /\ unit.result.Output[1]["y"].items = <<"/x", "/y">>

\* The configuration passed the checks of html_source and selectors.
HtmlConfigured ==
    /\ Returned /\ mode = "htmltest"
    /\ ~Unusable("html_source")
    /\ unit.config.selectors.t = "list" /\ unit.config.selectors.items # << >>

HtmlKey == unit.config.html_source.v

HtmlHolder == ctxs[TestCtx][HtmlKey]

\* The value under html_source is a string, or a map with a string body.
HoldsHtml ==
    \/ HtmlHolder.kind = "string"
    \/ /\ HtmlHolder.kind = "map"
       /\ "body" \in DOMAIN HtmlHolder.m
       /\ HtmlHolder.m["body"].kind = "string"

HtmlResolved ==
    HtmlConfigured =>
        IF HtmlKey \notin DOMAIN ctxs[TestCtx]
        THEN unit.result = FailedResult(<<"HTML source '", HtmlKey, "' not found in context">>)
        ELSE IF HoldsHtml
        THEN LET parsed == parseSelectors(unit.config.selectors.items)
             IN IF parsed.ok
                THEN unit.result = SuccessResult(extractData(GivenDoc, parsed.selectors))
                ELSE /\ unit.result.Status = "failed"
                     /\ Head(unit.result.Error) = "invalid selector configuration: "
        ELSE unit.result = FailedResult(<<"HTML content is not a string">>)

HtmlReadsOnly ==
    (mode = "htmltest" /\ unit.pc = "execute" /\ unit'.pc = "ret") => ctxs' = ctxs

\* C33: HTML source resolution.  The extractor reads the context value at
\* html_source: an absent key fails with "HTML source '<key>' not found in
\* context", a string is used directly, a mapping with a string field body
\* uses that field, every other shape fails with "HTML content is not a
\* string"; the extractor never writes to the context.
HtmlSourceResolution == [](HtmlResolved) /\ [][HtmlReadsOnly]_vars

\* The HTML is the body of a map, as the HTTP executor leaves it, and the
\* first element of class b is extracted from it.
HtmlSourceResolutionWitness ==
    /\ HtmlConfigured
    /\ ctxs[TestCtx] = [page |-> HtmlMap([k \in {"body"} |-> HtmlString(DocClean)])]
    /\ unit.config.selectors.items = <<SelFirst, SelTexts>>
    /\ unit.result.Status = "success"
    /\ unit.result.Output[1]["z"] = OneString("C")

\* The stored task logs of execution e with status running.
RunningLogs(e) ==
    {id \in DOMAIN taskLogs :
        taskLogs[id].execution_id = e /\ taskLogs[id].status = "running"}

\* C34: task-log store consistency with the run.  Provided no TaskLogStore
\* call fails, each execution has at most one task log with status running,
\* that log belongs to the task currently being executed, and an execution
\* whose status is completed or failed has no task log with status running.
TaskLogsFollowRun ==
    \A e \in ApiExecutions :
        ~logOps[e].fail =>
            /\ Cardinality(RunningLogs(e)) <= 1
            /\ \A id \in RunningLogs(e) :
                  /\ pc[e] = "publish"
                  /\ id = <<e, idx[e]>>
                  /\ taskLogs[id].task_id = wf[e][idx[e]].ID
            /\ executions[e].status \in Terminal => RunningLogs(e) = {}

\* One execution is at its second task with that task's log running and
\* the first one closed, another has failed and left no running log; no
\* TaskLogStore call of either failed.
TaskLogsFollowRunWitness ==
    /\ \E e \in ApiExecutions :
          /\ ~logOps[e].fail /\ pc[e] = "publish" /\ idx[e] = 2
          /\ RunningLogs(e) = {<<e, 2>>}
          /\ taskLogs[<<e, 1>>].status = "success"
    /\ \E e \in ApiExecutions :
          /\ ~logOps[e].fail /\ executions[e].status = "failed"
          /\ Len(TaskLogsOf(e)) = 3 /\ RunningLogs(e) = {}

\* The API server with one stored workflow whose second task has no
\* executor, clients of the run, update and delete endpoints, and every
\* background goroutine scheduled fairly; the stores work.
InFlightWorkflows == <<WorkflowRow("q", DefinitionJSON(WfMissing(2, 2)))>>

InitInFlight ==
    /\ InitCommon
    /\ workflows = InFlightWorkflows
    /\ mode = "api"
    /\ env = [logFaults |-> FALSE, execFaults |-> FALSE]

NextInFlight ==
    \/ \E param \in ValidRunRequests : RunWorkflow(param)
    \/ \E param \in ValidRunRequests, name \in ClientNames, d \in ClientDefinitions :
           UpdateWorkflow(param, name, d)
    \/ \E param \in ValidRunRequests : DeleteWorkflow(param)
    \/ \E e \in ExecIds : StartExecution(e)
    \/ \E e \in ExecIds : LookupMiss(e)
    \/ \E e \in ExecIds : ExecuteTask(e)
    \/ \E e \in ExecIds : PublishResult(e)
    \/ \E e \in ExecIds : FinishExecution(e)

SpecInFlight ==
    InitInFlight /\ [][NextInFlight]_vars /\ \A e \in ExecIds : WF_vars(Runner(e))

\* The execution is pending or running: its goroutine has not returned.
InFlight(e) == pc[e] \in RunnerPcs

\* The task list stored in workflow w, as the run request decodes it.
StoredTasks(w) ==
    IF w \in DOMAIN workflows /\ ToWorkflowDefinition(workflows[w]).ok
    THEN ToWorkflowDefinition(workflows[w]).Tasks
    ELSE << >>

\* The tasks execution e has performed are, in order, the first tasks of
\* the list it was started with: its n-th task log is the log of task n of
\* that list and the n-th executor call is for a task of that list in
\* increasing order.
PerformsLoaded(e) ==
    LET logs == TaskLogsOf(e)
    IN /\ Len(logs) <= Len(wf[e])
       /\ \A n \in 1..Len(logs) :
             /\ logs[n].id = <<e, n>>
             /\ logs[n].task_id = wf[e][n].ID
             /\ logs[n].task_type = wf[e][n].Type
       /\ \A k \in 1..Len(calls[e]) :
             /\ calls[e][k].task = k
             /\ calls[e][k].result \in TaskResults(wf[e][k])
       /\ (Finished(e) /\ executions[e].status = "completed") => Len(logs) = Len(wf[e])

InFlightPerforms == \A e \in Accepted : PerformsLoaded(e)

\* The run request hands the goroutine the list stored when it loaded the
\* workflow, and no step replaces the list of an execution in flight.
InFlightStep ==
    \A e \in ExecIds :
        /\ (pc[e] = "idle" /\ pc'[e] = "start") => wf'[e] = StoredTasks(wfid'[e])
        /\ InFlight(e) => wf'[e] = wf[e]

\* C35: an in-flight execution runs the definition as decoded at request
\* time.  The task list an execution performs is the one stored in the
\* workflow when the run request loaded it; a PUT or DELETE of the workflow
\* after the load, while the execution is pending or running, changes
\* neither the tasks performed nor their order, and the execution still
\* reaches a terminal status.
InFlightDefinition ==
    /\ [](InFlightPerforms)
    /\ [][InFlightStep]_vars
    /\ \A e \in ExecIds :
          InFlight(e) ~> (e \in DOMAIN executions /\ executions[e].status \in Terminal)

\* An execution has attempted both tasks of the list it loaded and failed
\* on the second, while the stored workflow had been replaced by a PUT with
\* a one-task definition under another name.
InFlightDefinitionWitness ==
    \E e \in Accepted :
        /\ Finished(e) /\ executions[e].status = "failed"
        /\ Len(TaskLogsOf(e)) = 2 /\ wf[e] = WfMissing(2, 2)
        /\ workflows[wfid[e]] = WorkflowRow("a", DefinitionJSON(WfOk(1)))

\* handleUpdateWorkflow served concurrently with other requests: its two
\* calls of the repository are two steps.  First step, up to repo.GetByID:
\* the path parameter, the binding of the body, the load of the workflow.
UpdateWorkflowLoad(param, name, definition) ==
    /\ mode = "api"
    /\ ~put.pending
    /\ LET parsed == UuidParse(param)
           g == WorkflowRepoGetByID(workflows, parsed.id)
       IN IF ~parsed.ok \/ name = ""
          THEN /\ resp' = Response("update", <<param, name>>, 400, 0, "")
               /\ put' = put
          ELSE IF ~g.ok
          THEN /\ resp' = Response("update", <<param, name>>, LookupErrorCode(g.err), 0, "")
               /\ put' = put
          ELSE /\ resp' = resp
               /\ put' = [pending |-> TRUE, param |-> param, id |-> parsed.id,
                          workflow |-> WorkflowRow(name, definition)]
    /\ UNCHANGED <<mode, unit, env, storeVars, engineVars, localVars, histVars,
                   nextWf, unitVars>>

\* Second step: repo.Update(workflow) and the answer.
UpdateWorkflowSave ==
    /\ mode = "api"
    /\ put.pending
    /\ LET u == WorkflowRepoUpdate(workflows, put.id, put.workflow)
       IN /\ workflows' = u.store
          /\ resp' = IF u.ok
                     THEN Response("update", <<put.param, put.workflow.name>>, 200, put.id, "")
                     ELSE Response("update", <<put.param, put.workflow.name>>,
                                   UpdateErrorCode(u.err), 0, "")
    /\ put' = NoPut
    /\ UNCHANGED <<mode, unit, env, executions, taskLogs, nextExec, engineVars, localVars,
                   histVars, nextWf, unitVars>>

\* The API server and the clients of its workflow endpoints, the requests
\* served concurrently, starting from an empty workflows table.
NextPut ==
    \/ \E name \in ClientNames, d \in ClientDefinitions : CreateWorkflow(name, d)
    \/ \E param \in WorkflowParams, name \in ClientNames, d \in ClientDefinitions :
           UpdateWorkflowLoad(param, name, d)
    \/ UpdateWorkflowSave
    \/ \E param \in WorkflowParams : DeleteWorkflow(param)

SpecPut == InitCrud /\ [][NextPut]_vars

\* The ids of the workflows that were deleted: created (ids are minted in
\* sequence and never again) and no longer stored.
DeletedWorkflows == {w \in 1..nextWf : w \notin DOMAIN workflows}

\* C36: delete is final under concurrent update.  Once DELETE
\* /workflows/{id} has removed a workflow, no interleaving with a concurrent
\* PUT that had already loaded it makes a workflow with that id exist
\* again: a PUT whose save happens after the delete does not re-insert the
\* row.
DeleteIsFinal == [][\A w \in DeletedWorkflows : w \notin DOMAIN workflows']_vars

\* The last step of the runner of e, with the ExecutionStore left as it
\* was: the UpdateExecution that stores the terminal status failed (a
\* successful one replaces the running row by a terminal one).
FinalUpdateFails(e) ==
    /\ pc[e] = "finish" /\ pc'[e] = "done"
    /\ executions' = executions

FinalUpdateFailureStep ==
    \A e \in ExecIds :
        FinalUpdateFails(e) =>
            /\ ret'[e].returned /\ ret'[e].record
            /\ execution'[e].Status = TerminalStatus(executionError[e])
            /\ execution'[e].CompletedAt # NullTime
            /\ execution'[e].ContextSnapshot # NullJSON
            /\ ret'[e].err = <<"failed to update execution: ">>
            /\ executions'[e].status = "running"
            /\ executions'[e].completed_at = NullTime
            /\ executions'[e].context_snapshot = NullJSON
            /\ taskLogs' = taskLogs

\* The execution returned with the error of its final update.
FinalUpdateFailed(e) ==
    /\ Finished(e)
    /\ ret[e].record
    /\ ret[e].err = <<"failed to update execution: ">>

FinalUpdateFailureKept ==
    \A e \in ExecIds :
        FinalUpdateFailed(e) =>
            /\ execution[e].Status \in Terminal
            /\ executions[e].status = "running"
            /\ executions[e].completed_at = NullTime
            /\ executions[e].context_snapshot = NullJSON

\* C37: failure of the final Execution update.  If the UpdateExecution call
\* that stores the terminal status fails, ExecuteWithLogging returns the
\* Execution record (with the terminal status, completed_at and snapshot)
\* together with a `failed to update execution` error that replaces any
\* task-level error, while the persisted record keeps status running with
\* no completed_at and no snapshot; the task logs written before remain.
FinalUpdateFailure == [](FinalUpdateFailureKept) /\ [][FinalUpdateFailureStep]_vars

\* A task failed, the final update failed too: the caller gets the record
\* with status failed and the error of the update, the store still says
\* running, and the log of the failed task is there.
FinalUpdateFailureWitness ==
    \E e \in ExecIds :
        /\ FinalUpdateFailed(e)
        /\ executionError[e] # NoError
        /\ execution[e].Status = "failed"
        /\ executions[e].status = "running"
        /\ \E id \in DOMAIN taskLogs : id[1] = e /\ taskLogs[id].status = "failed"

\* A workflow whose first task runs the custom executor, the second the
\* mock, and whose third has no executor, and one whose second task runs
\* the custom executor; run through the run endpoint or by a caller of
\* Engine.Execute.  The stores work.
StatusWorkflows ==
    <<WorkflowRow("s", DefinitionJSON(<<Task(TaskId(1), "custom", "1"),
                                         Task(TaskId(2), "mock", "2"),
                                         Task(TaskId(3), "nonesuch", "3")>>)),
      WorkflowRow("r", DefinitionJSON(<<Task(TaskId(1), "mock", "1"),
                                         Task(TaskId(2), "custom", "2")>>))>>

InitStatus ==
    /\ InitCommon
    /\ workflows = StatusWorkflows
    /\ mode \in {"api", "harness"}
    /\ env = [logFaults |-> FALSE, execFaults |-> FALSE]

SpecStatus == InitStatus /\ [][Next]_vars

\* The executor calls of run e that returned anything but success.
NonSuccess(e) == {k \in 1..Len(calls[e]) : calls[e][k].result.Status # "success"}

\* The runner of e has dealt with the result of its last executor call.
Handled(e) == pc[e] \in {"finish", "done"}

\* C38: any non-success result is a failure.  Both runners treat a
\* TaskResult whose status is anything other than the exact string success
\* (failed, the empty string, an unknown value) as a task failure: the
\* result key is not published, the loop halts, later tasks are not
\* attempted, and the logging runner records the task log as failed with
\* error equal to the result's error field.
NonSuccessIsFailure ==
    \A e \in ExecIds : \A k \in NonSuccess(e) :
        LET i == calls[e][k].task
            r == calls[e][k].result
        IN /\ k = Len(calls[e])
           /\ \A n \in 1..Len(sets[e]) : sets[e][n].task < i
           /\ \A id \in DOMAIN taskLogs : id[1] = e => id[2] <= i
           /\ Handled(e) =>
                 /\ idx[e] = i
                 /\ mode = "api" =>
                       /\ taskLogs[<<e, i>>].status = "failed"
                       /\ taskLogs[<<e, i>>].error = r.Error
                       /\ executionError[e] = TaskFailedMsg(wf[e][i].ID, r.Error)
                 /\ mode = "harness" =>
                       ret[e].err = TaskFailedMsg(wf[e][i].ID, r.Error)
           /\ (Finished(e) /\ mode = "api") => executions[e].status = "failed"

\* After a successful first task the custom executor returned the empty
\* status with an output and no error text: the run is over, failed, with
\* the first result published only and the second task log failed.
NonSuccessIsFailureWitness ==
    \E e \in ExecIds :
        /\ Finished(e) /\ mode = "api"
        /\ Len(calls[e]) = 2
        /\ calls[e][2].result = [Status |-> "", Output |-> "out-2", Error |-> << >>]
        /\ Len(sets[e]) = 1 /\ sets[e][1].key = ResultKey(TaskId(1))
        /\ executions[e].status = "failed"
        /\ Len(TaskLogsOf(e)) = 2 /\ taskLogs[<<e, 2>>].status = "failed"

\* A caller of Engine.Execute fills the engine's context between runs:
\* eng.GetContext().Set(key, value).
SeedKeys == {"seed", ResultKey(TaskId(1))}

GetContextSet(key) ==
    /\ mode = "harness"
    /\ \A e \in ExecIds : pc[e] \in {"idle", "done"}
    /\ CtxGet(ctxs[engineCtx], key).value # "planted"
    /\ ctxs' = [ctxs EXCEPT ![engineCtx] = CtxSet(@, key, "planted")]
    /\ UNCHANGED <<mode, unit, env, storeVars, engineCtx, localVars, histVars, httpVars,
                   unitVars>>

InitExecute ==
    /\ InitCommon
    /\ workflows = StoredWorkflows
    /\ mode = "harness"
    /\ env = [logFaults |-> FALSE, execFaults |-> FALSE]

NextExecute ==
    \/ \E key \in SeedKeys : GetContextSet(key)
    \/ \E w \in DOMAIN workflows : CallExecute(w)
    \/ \E e \in ExecIds : ExecuteIteration(e)
    \/ \E e \in ExecIds : ExecuteReturn(e)

SpecExecute == InitExecute /\ [][NextExecute]_vars

\* A step of a call of Execute: its entry, an iteration, its return.
ExecuteStep == \E e \in ExecIds : pc[e] = "uloop" \/ pc'[e] = "uloop"

\* The executor call the step makes, if it makes one.
CallMade(e) == Len(calls'[e]) = Len(calls[e]) + 1
MadeCall(e) == calls'[e][Len(calls'[e])]

\* The step publishes key: a task of id `id` succeeded and key is id_result.
Publishes(key) ==
    \E e \in ExecIds :
        /\ CallMade(e)
        /\ MadeCall(e).result.Status = "success"
        /\ key = ResultKey(wf[e][MadeCall(e).task].ID)
        /\ ctxs'[engineCtx][key] = MadeCall(e).result.Output

ExecuteFrameStep ==
    ExecuteStep =>
        /\ engineCtx' = engineCtx
        /\ \A c \in DOMAIN ctxs : c # engineCtx => ctxs'[c] = ctxs[c]
        /\ \A key \in DOMAIN ctxs[engineCtx] :
              /\ key \in DOMAIN ctxs'[engineCtx]
              /\ ctxs'[engineCtx][key] # ctxs[engineCtx][key] => Publishes(key)
        /\ \A e \in ExecIds :
              CallMade(e) =>
                  /\ MadeCall(e).ctx = engineCtx
                  /\ \A key \in DOMAIN ctxs[engineCtx] :
                        /\ key \in DOMAIN MadeCall(e).seen
                        /\ MadeCall(e).seen[key] = ctxs[engineCtx][key]
        /\ \A e \in ExecIds :
              (pc[e] = "uloop" /\ pc'[e] = "done" /\ ret'[e].err # NoError) =>
                  \A n \in 1..Len(sets[e]) :
                      /\ sets[e][n].key \in DOMAIN ctxs'[engineCtx]
                      /\ (\A m \in (n + 1)..Len(sets[e]) : sets[e][m].key # sets[e][n].key)
                             => ctxs'[engineCtx][sets[e][n].key] = sets[e][n].value
        /\ executions' = executions
        /\ taskLogs' = taskLogs

\* The result keys of the tasks that succeeded stay in the context after
\* the run, failed or not, and the stores are as they were created.
ExecuteLeaves ==
    mode = "harness" =>
        /\ \A e \in ExecIds : \A n \in 1..Len(sets[e]) :
              sets[e][n].key \in DOMAIN ctxs[engineCtx]
        /\ executions = EmptyStore
        /\ taskLogs = EmptyStore

\* C39: frame of the un-logged runner.  Engine.Execute does not reset the
\* context; every key present before the call keeps its value unless it is
\* the <id>_result of a task that succeeded during the call; keys set
\* before the call are visible to the executors; after a failed run the
\* <id>_result keys of the tasks that succeeded before the failure remain;
\* Execute performs no ExecutionStore or TaskLogStore operation.
ExecuteFrame == [](ExecuteLeaves) /\ [][ExecuteFrameStep]_vars

\* The caller had set seed and t1_result; the run published t1_result over
\* the planted value, its second task failed, and seed is as planted.
ExecuteFrameWitness ==
    \E e \in ExecIds :
        /\ mode = "harness" /\ Finished(e) /\ ret[e].err # NoError
        /\ Len(calls[e]) = 2
        /\ calls[e][1].seen = [k \in SeedKeys |-> "planted"]
        /\ ctxs[engineCtx]["seed"] = "planted"
        /\ ctxs[engineCtx][ResultKey(TaskId(1))] = "out-1"

====
